---- MODULE Spec2Model ----
(***************************************************************************)
(* Model of the CDDL validation core: the CBOR validator                   *)
(* (src/validator/cbor.rs, a Visitor over the CDDL AST that accumulates    *)
(* ValidationErrors in a CBORValidator) and the JSON validator             *)
(* (src/validator.rs).  Every visit_* method of the Rust source is an      *)
(* operator from a validator record to the validator record after the      *)
(* call; the field `ret` carries the Result the call returned.             *)
(***************************************************************************)
EXTENDS Integers, Sequences, FiniteSets, TLC

(***************************************************************************)
(* Option<T>                                                               *)
(***************************************************************************)
None == <<>>
Some(x) == <<x>>
IsSome(o) == Len(o) > 0
IsNone(o) == Len(o) = 0
Unwrap(o) == o[1]

(***************************************************************************)
(* serde_cbor::Value.  Floats are modelled as integers (tenths).  A map is *)
(* a sequence of [key, val] entries with pairwise distinct scalar keys.    *)
(***************************************************************************)
Null == [k |-> "Null", v |-> 0]
Bool(b) == [k |-> "Bool", v |-> b]
Integer(i) == [k |-> "Integer", v |-> i]
Float(f) == [k |-> "Float", v |-> f]
Text(s) == [k |-> "Text", v |-> s]
Bytes(s) == [k |-> "Bytes", v |-> s]
Array(a) == [k |-> "Array", v |-> a]
Map(m) == [k |-> "Map", v |-> m]
KV(key, val) == [key |-> key, val |-> val]

ScalarEq(a, b) == a.k = b.k /\ a.v = b.v

MapGet(m, key) ==
  LET S == {i \in 1..Len(m) : ScalarEq(m[i].key, key)}
  IN IF S = {} THEN None ELSE Some(m[CHOOSE i \in S : TRUE].val)

(***************************************************************************)
(* token::Value, the literal values of the CDDL AST                        *)
(***************************************************************************)
INT(v) == [tv |-> "INT", v |-> v]
UINT(v) == [tv |-> "UINT", v |-> v]
FLOAT(v) == [tv |-> "FLOAT", v |-> v]
TEXT(v) == [tv |-> "TEXT", v |-> v]
BYTE(v) == [tv |-> "BYTE", v |-> v]

(***************************************************************************)
(* CDDL AST.  A Type is the sequence of its type choices (Type1), a Group  *)
(* the sequence of its group choices, a GroupChoice the sequence of its    *)
(* group entries, a CDDL the sequence of its rules.                        *)
(***************************************************************************)
IntValue(n) == [t2 |-> "IntValue", value |-> n]
UintValue(n) == [t2 |-> "UintValue", value |-> n]
FloatValue(f) == [t2 |-> "FloatValue", value |-> f]
TextValue(s) == [t2 |-> "TextValue", value |-> s]
Typename(ident) == [t2 |-> "Typename", ident |-> ident, generic_args |-> None]
TypenameG(ident, args) == [t2 |-> "Typename", ident |-> ident, generic_args |-> Some(args)]
ArrayT(group) == [t2 |-> "Array", group |-> group]
MapT(group) == [t2 |-> "Map", group |-> group]
ParenthesizedType(pt) == [t2 |-> "ParenthesizedType", pt |-> pt]
Type2Any == [t2 |-> "Any"]
ChoiceFromGroup(ident) == [t2 |-> "ChoiceFromGroup", ident |-> ident, generic_args |-> None]
ChoiceFromInlineGroup(group) == [t2 |-> "ChoiceFromInlineGroup", group |-> group]
TaggedData == [t2 |-> "TaggedData"]

T1(type2) == [type2 |-> type2, operator |-> None]
RangeOp(lower, upper, is_inclusive) ==
  [type2 |-> lower,
   operator |-> Some([op |-> "RangeOp", is_inclusive |-> is_inclusive, ctrl |-> "", type2 |-> upper])]
CtlOp(target, ctrl, controller) ==
  [type2 |-> target,
   operator |-> Some([op |-> "CtlOp", is_inclusive |-> FALSE, ctrl |-> ctrl, type2 |-> controller])]

Optional == [o |-> "Optional", lower |-> None, upper |-> None]
ZeroOrMore == [o |-> "ZeroOrMore", lower |-> None, upper |-> None]
OneOrMore == [o |-> "OneOrMore", lower |-> None, upper |-> None]
Exact(lower, upper) == [o |-> "Exact", lower |-> lower, upper |-> upper]
IsOccur(o, name) == IsSome(o) /\ Unwrap(o).o = name

MkType1(t1, is_cut) == [mk |-> "Type1", t1 |-> t1, is_cut |-> is_cut]
Bareword(ident) == [mk |-> "Bareword", ident |-> ident]
MkValue(value) == [mk |-> "Value", value |-> value]

ValueMemberKey(occur, member_key, entry_type) ==
  [ge |-> "ValueMemberKey", occur |-> occur, member_key |-> member_key, entry_type |-> entry_type]
TypeGroupname(occur, name) ==
  [ge |-> "TypeGroupname", occur |-> occur, name |-> name, generic_args |-> None]
InlineGroup(occur, group) == [ge |-> "InlineGroup", occur |-> occur, group |-> group]

TypeRule(name, generic_params, value) ==
  [r |-> "Type", name |-> name, generic_params |-> generic_params, value |-> value]
GroupRule(name, generic_params, entry) ==
  [r |-> "Group", name |-> name, generic_params |-> generic_params, entry |-> entry]

(***************************************************************************)
(* token.rs: identifiers of the prelude and control operators              *)
(***************************************************************************)
lookup_ident(ident) ==
  CASE ident = "any" -> "ANY"
    [] ident = "bool" -> "BOOL"
    [] ident = "true" -> "TRUE"
    [] ident = "false" -> "FALSE"
    [] ident = "null" -> "NULL"
    [] ident = "nil" -> "NIL"
    [] ident = "uint" -> "UINT"
    [] ident = "nint" -> "NINT"
    [] ident = "int" -> "INT"
    [] ident = "integer" -> "INTEGER"
    [] ident = "number" -> "NUMBER"
    [] ident = "float" -> "FLOAT"
    [] ident = "float16" -> "FLOAT16"
    [] ident = "float32" -> "FLOAT32"
    [] ident = "float64" -> "FLOAT64"
    [] ident = "float16-32" -> "FLOAT1632"
    [] ident = "float32-64" -> "FLOAT3264"
    [] ident = "tstr" -> "TSTR"
    [] ident = "text" -> "TEXT"
    [] ident = "bstr" -> "BSTR"
    [] ident = "bytes" -> "BYTES"
    [] OTHER -> "IDENT"

lookup_control_from_str(ctrl) ==
  CASE ctrl = ".eq" -> Some("EQ")
    [] ctrl = ".ne" -> Some("NE")
    [] ctrl = ".lt" -> Some("LT")
    [] ctrl = ".le" -> Some("LE")
    [] ctrl = ".gt" -> Some("GT")
    [] ctrl = ".ge" -> Some("GE")
    [] ctrl = ".size" -> Some("SIZE")
    [] ctrl = ".and" -> Some("AND")
    [] ctrl = ".within" -> Some("WITHIN")
    [] ctrl = ".default" -> Some("DEFAULT")
    [] ctrl = ".regexp" -> Some("REGEXP")
    [] ctrl = ".pcre" -> Some("PCRE")
    [] OTHER -> None

is_ident_null_data_type(cddl, ident) == lookup_ident(ident) \in {"NULL", "NIL"}
is_ident_byte_string_data_type(cddl, ident) == lookup_ident(ident) \in {"BSTR", "BYTES"}
is_ident_string_data_type(cddl, ident) == lookup_ident(ident) \in {"TSTR", "TEXT"}
is_ident_uint_data_type(cddl, ident) == lookup_ident(ident) = "UINT"
is_ident_integer_data_type(cddl, ident) ==
  lookup_ident(ident) \in {"UINT", "NINT", "INT", "INTEGER"}
is_ident_numeric_data_type(cddl, ident) ==
  lookup_ident(ident) \in {"UINT", "NINT", "INT", "INTEGER", "NUMBER", "FLOAT", "FLOAT16",
                           "FLOAT32", "FLOAT64", "FLOAT1632", "FLOAT3264"}

(***************************************************************************)
(* Rule resolver                                                           *)
(***************************************************************************)
RulesNamed(cddl, ident) == SelectSeq(cddl, LAMBDA r : r.name = ident)

rule_from_ident(cddl, ident) ==
  LET rs == RulesNamed(cddl, ident) IN IF Len(rs) = 0 THEN None ELSE Some(rs[1])

group_rule_from_ident(cddl, ident) ==
  LET rs == SelectSeq(cddl, LAMBDA r : r.name = ident /\ r.r = "Group")
  IN IF Len(rs) = 0 THEN None ELSE Some(rs[1])

generic_params_from_rule(rule) == rule.generic_params

type_choice_alternates_from_ident(cddl, ident) ==
  LET rs == SelectSeq(cddl, LAMBDA r : r.name = ident /\ r.r = "Type")
  IN [i \in 1..Len(rs) |-> rs[i].value]

group_choice_alternates_from_ident(cddl, ident) ==
  LET rs == SelectSeq(cddl, LAMBDA r : r.name = ident /\ r.r = "Group")
  IN [i \in 1..Len(rs) |-> rs[i].entry]

(* The type choices a group choice enumerates: those of its entries' types. *)
RECURSIVE type_choices_from_group_choice(_, _)
type_choices_from_group_choice(cddl, gc) ==
  IF Len(gc) = 0 THEN <<>>
  ELSE (IF gc[1].ge = "ValueMemberKey" THEN gc[1].entry_type ELSE <<>>)
       \o type_choices_from_group_choice(cddl, Tail(gc))

(* Number of entries of a group choice that are not made optional by ? or *. *)
RECURSIVE entry_counts_from_group_choice(_, _)
entry_counts_from_group_choice(cddl, gc) ==
  IF Len(gc) = 0 THEN 0
  ELSE (IF IsOccur(gc[1].occur, "Optional") \/ IsOccur(gc[1].occur, "ZeroOrMore") THEN 0 ELSE 1)
       + entry_counts_from_group_choice(cddl, Tail(gc))

entry_counts_from_group(cddl, group) ==
  [i \in 1..Len(group) |-> entry_counts_from_group_choice(cddl, group[i])]

(***************************************************************************)
(* Occurrence arbiter of the CBOR validator: the Result<bool, String> of   *)
(* validate_array_occurrence(occurence, values): Ok(iter_items) or an      *)
(* error message.                                                          *)
(***************************************************************************)
OccOk(iter_items) == [ok |-> TRUE, iter_items |-> iter_items, e |-> ""]
OccErr(e) == [ok |-> FALSE, iter_items |-> FALSE, e |-> e]

cbor_validate_array_occurrence(occurence, values) ==
  IF IsNone(occurence) THEN
    IF Len(values) = 0 THEN OccErr("array must have exactly one item") ELSE OccOk(FALSE)
  ELSE
    LET o == Unwrap(occurence) IN
    CASE o.o = "Optional" ->
           IF Len(values) > 1 THEN OccErr("array must have 0 or 1 items") ELSE OccOk(FALSE)
      [] o.o = "ZeroOrMore" -> OccOk(TRUE)
      [] o.o = "OneOrMore" ->
           IF Len(values) = 0 THEN OccErr("array must have at least one item") ELSE OccOk(TRUE)
      [] OTHER ->
           IF IsSome(o.lower) /\ Len(values) < Unwrap(o.lower)
             THEN OccErr("array must have at least the lower bound of items")
           ELSE IF IsSome(o.upper) /\ Len(values) > Unwrap(o.upper)
             THEN OccErr("array must have at most the upper bound of items")
           ELSE OccOk(TRUE)

(***************************************************************************)
(* The regex crate behind .regexp / .pcre: which controller texts compile, *)
(* and which strings a compiled pattern matches.                           *)
(***************************************************************************)
RegexCompiles(t) == t # "("
RegexIsMatch(t, s) ==
  CASE t = "^a+$" -> s \in {"a", "aa"}
    [] t = "b" -> s \in {"b", "ab"}
    [] OTHER -> s = t

(***************************************************************************)
(* CBORValidator                                                           *)
(***************************************************************************)
ValidationError(reason, cddl_location, cbor_location, mtc, mgc, g2c, tgne) ==
  [reason |-> reason,
   cddl_location |-> cddl_location,
   cbor_location |-> cbor_location,
   is_multi_type_choice |-> mtc,
   is_multi_group_choice |-> mgc,
   is_group_to_choice_enum |-> g2c,
   type_group_name_entry |-> tgne]

(* A reason is the pair of the message's fixed text and its formatted arguments. *)
Reason(msg, args) == <<msg, ToString(args)>>

from_validator(jv, reason) ==
  ValidationError(reason, jv.cddl_location, jv.cbor_location, jv.is_multi_type_choice,
                  jv.is_multi_group_choice, jv.is_group_to_choice_enum, jv.type_group_name_entry)

New(cddl, cbor) ==
  [cddl |-> cddl,
   cbor |-> cbor,
   errors |-> <<>>,
   cddl_location |-> "",
   cbor_location |-> "",
   occurence |-> None,
   group_entry_idx |-> None,
   object_value |-> None,
   is_member_key |-> FALSE,
   is_cut_present |-> FALSE,
   cut_value |-> None,
   eval_generic_rule |-> None,
   generic_rules |-> <<>>,
   ctrl |-> None,
   is_group_to_choice_enum |-> FALSE,
   is_multi_type_choice |-> FALSE,
   is_multi_group_choice |-> FALSE,
   type_group_name_entry |-> None,
   advance_to_next_entry |-> FALSE,
   is_ctrl_map_equality |-> FALSE,
   entry_counts |-> None,
   ret |-> None,
   depth |-> 0]

add_error(jv, reason) == [jv EXCEPT !.errors = Append(@, from_validator(jv, reason))]

(* The Result of the last call: Ok(()) is None, Err(e), or the call stack exhausted. *)
Raised(jv) == IsSome(jv.ret)
Err(jv, e) == [jv EXCEPT !.ret = Some([kind |-> "Err", e |-> e])]
Overflow(jv) == [jv EXCEPT !.ret = Some([kind |-> "StackOverflow", e |-> from_validator(jv, Reason("stack overflow", <<>>))])]
Truncate(errors, n) == SubSeq(errors, 1, n)

(* Call-stack budget: nested rule resolutions before the stack is exhausted. *)
MaxDepth == 4

(* 256i128.pow(v as u32) *)
RECURSIVE Pow256(_)
Pow256(v) == IF v = 0 THEN 1 ELSE 256 * Pow256(v - 1)

(***************************************************************************)
(* 256i128.pow(v as u32) (cbor.rs 1397).  256^16 = 2^128 does not fit an   *)
(* i128: a build with overflow checks panics, a build without them wraps   *)
(* the product to 0.  Which one is a property of the build.                *)
(***************************************************************************)
VARIABLE overflow_checks
I128Bits == 128
PowOverflows(v) == 8 * v >= I128Bits - 1
Panic(jv) == [jv EXCEPT !.ret = Some([kind |-> "Panic", e |-> from_validator(jv, Reason("attempt to multiply with overflow", <<>>))])]
(* i < 256i128.pow(v) for an i of at most 32 bits: 256^v exceeds every     *)
(* such i from v = 4 on, so the power is only computed below that.         *)
LessThanPow256(i, v) ==
  IF PowOverflows(v) THEN i < 0
  ELSE IF v >= 4 THEN TRUE
  ELSE i < Pow256(v)

token_value_into_cbor_value(value) ==
  CASE value.tv \in {"UINT", "INT"} -> Integer(value.v)
    [] value.tv = "FLOAT" -> Float(value.v)
    [] value.tv = "TEXT" -> Text(value.v)
    [] OTHER -> Bytes(value.v)

Type1FromValue(value) ==
  CASE value.tv = "INT" -> T1(IntValue(value.v))
    [] value.tv = "UINT" -> T1(UintValue(value.v))
    [] value.tv = "FLOAT" -> T1(FloatValue(value.v))
    [] OTHER -> T1(TextValue(value.v))

(* The dispatch of a Visitor method: Call(f, jv, args) is jv.f(args). *)
RECURSIVE Call(_, _, _)
RECURSIVE visit_type_rule_alternates(_, _, _, _), visit_group_rule_alternates(_, _, _, _)
RECURSIVE visit_type_choices(_, _, _, _), visit_group_choices(_, _, _, _)
RECURSIVE visit_group_choice_enum(_, _, _, _), visit_group_entries(_, _, _)
RECURSIVE visit_generic_args(_, _, _), visit_array_items(_, _, _, _)

visit_occurrence_dropped(jv, o) == jv
visit_occurrence(jv, o) == [jv EXCEPT !.occurence = Some(o)]

(***************************************************************************)
(* visitor.rs: the default walks                                           *)
(***************************************************************************)
visit_rule(jv, rule) ==
  IF rule.r = "Type" THEN Call("visit_type_rule", jv, <<rule>>) ELSE Call("visit_group_rule", jv, <<rule>>)

visit_type_choice(jv, tc) == Call("visit_type1", jv, <<tc>>)

visit_type1(jv, t1) ==
  IF IsNone(t1.operator) THEN Call("visit_type2", jv, <<t1.type2>>)
  ELSE LET o == Unwrap(t1.operator) IN
       IF o.op = "RangeOp" THEN Call("visit_range", jv, <<t1.type2, o.type2, o.is_inclusive>>)
       ELSE Call("visit_control_operator", jv, <<t1.type2, o.ctrl, o.type2>>)

visit_group_entry(jv, ge) ==
  CASE ge.ge = "ValueMemberKey" -> Call("visit_value_member_key_entry", jv, <<ge>>)
    [] ge.ge = "TypeGroupname" -> Call("visit_type_groupname_entry", jv, <<ge>>)
    [] OTHER -> Call("visit_inline_group_entry", jv, <<ge.occur, ge.group>>)

visit_inline_group_entry(jv, occur, group) ==
  Call("visit_group", IF IsSome(occur) THEN visit_occurrence(jv, Unwrap(occur)) ELSE jv, <<group>>)

visit_generic_args(jv, args, i) ==
  IF i > Len(args) THEN jv
  ELSE LET r == Call("visit_type1", jv, <<args[i]>>) IN
       IF Raised(r) THEN r ELSE visit_generic_args(r, args, i + 1)

walk_type_groupname_entry(jv, entry) ==
  LET jv1 == IF IsSome(entry.occur) THEN visit_occurrence(jv, Unwrap(entry.occur)) ELSE jv
      jv2 == IF IsSome(entry.generic_args)
             THEN visit_generic_args(jv1, Unwrap(entry.generic_args), 1) ELSE jv1
  IN IF Raised(jv2) THEN jv2 ELSE Call("visit_identifier", jv2, <<entry.name>>)

walk_memberkey(jv, mk) ==
  CASE mk.mk = "Type1" -> Call("visit_type1", jv, <<mk.t1>>)
    [] mk.mk = "Bareword" -> Call("visit_identifier", jv, <<mk.ident>>)
    [] OTHER -> Call("visit_value", jv, <<mk.value>>)

(***************************************************************************)
(* impl Visitor for CBORValidator                                          *)
(***************************************************************************)
(* The registration of a generic rule's parameters at the head of          *)
(* visit_type_rule and visit_group_rule.                                   *)
RegisterGenericParams(jv, rule) ==
  IF IsNone(rule.generic_params) THEN jv
  ELSE LET gp == Unwrap(rule.generic_params)
           S == {i \in 1..Len(jv.generic_rules) : jv.generic_rules[i].name = rule.name}
       IN IF S # {}
          THEN LET i == CHOOSE x \in S : \A y \in S : x <= y
               IN [jv EXCEPT !.generic_rules[i].params = gp]
          ELSE [jv EXCEPT !.generic_rules =
                  Append(@, [name |-> rule.name, params |-> gp, args |-> <<>>])]

visit_type_rule_alternates(jv, alts, i, error_count) ==
  IF i > Len(alts) THEN jv
  ELSE LET r == Call("visit_type", jv, <<alts[i]>>) IN
       IF Raised(r) THEN r
       ELSE IF Len(r.errors) = Len(jv.errors)
            THEN [r EXCEPT !.errors = Truncate(@, error_count)]
            ELSE visit_type_rule_alternates(r, alts, i + 1, error_count)

visit_type_rule(jv, tr) ==
  LET jv1 == RegisterGenericParams(jv, tr)
  IN visit_type_rule_alternates(jv1, type_choice_alternates_from_ident(jv.cddl, tr.name),
                                1, Len(jv1.errors))

visit_group_rule_alternates(jv, alts, i, error_count) ==
  IF i > Len(alts) THEN jv
  ELSE LET r == Call("visit_group_entry", jv, <<alts[i]>>) IN
       IF Raised(r) THEN r
       ELSE IF Len(r.errors) = Len(jv.errors)
            THEN [r EXCEPT !.errors = Truncate(@, error_count)]
            ELSE visit_group_rule_alternates(r, alts, i + 1, error_count)

visit_group_rule(jv, gr) ==
  LET jv1 == RegisterGenericParams(jv, gr)
  IN visit_group_rule_alternates(jv1, group_choice_alternates_from_ident(jv.cddl, gr.name),
                                 1, Len(jv1.errors))

(* The loop of visit_type from type choice i on. *)
visit_type_choices(jv, t, i, initial_error_count) ==
  IF i > Len(t) THEN jv
  ELSE LET r == Call("visit_type_choice", jv, <<t[i]>>) IN
       IF Raised(r) THEN r
       ELSE IF Len(r.errors) = Len(jv.errors)
            THEN [r EXCEPT !.errors = Truncate(@, initial_error_count)]
            ELSE visit_type_choices(r, t, i + 1, initial_error_count)

(* A visit_type that rolls the error list back to empty, not to the length *)
(* at entry.                                                               *)
visit_type_clearing(jv, t) ==
  LET jv1 == IF Len(t) > 1 THEN [jv EXCEPT !.is_multi_type_choice = TRUE] ELSE jv
  IN visit_type_choices(jv1, t, 1, 0)

visit_type(jv, t) ==
  LET jv1 == IF Len(t) > 1 THEN [jv EXCEPT !.is_multi_type_choice = TRUE] ELSE jv
  IN visit_type_choices(jv1, t, 1, Len(jv1.errors))

(* The loop of visit_group from group choice i on. *)
visit_group_choices(jv, g, i, initial_error_count) ==
  IF i > Len(g) THEN jv
  ELSE LET r == Call("visit_group_choice", jv, <<g[i]>>) IN
       IF Raised(r) THEN r
       ELSE IF Len(r.errors) = Len(jv.errors)
            THEN [r EXCEPT !.errors = Truncate(@, initial_error_count)]
            ELSE visit_group_choices(r, g, i + 1, initial_error_count)

(* The .eq / .ne check of a map's size at the head of visit_group:         *)
(* <<>> when it passes or does not apply, else the error's reason.         *)
MapEqualityError(jv, g) ==
  IF jv.is_ctrl_map_equality /\ IsSome(jv.ctrl) /\ jv.cbor.k = "Map" THEN
    LET entry_counts == entry_counts_from_group(jv.cddl, g)
        len == Len(jv.cbor.v)
    IN IF Unwrap(jv.ctrl) = "EQ" /\ ~\E i \in 1..Len(entry_counts) : len = entry_counts[i]
         THEN Some(Reason("map equality error", <<entry_counts, len>>))
       ELSE IF Unwrap(jv.ctrl) = "NE" /\ ~\E i \in 1..Len(entry_counts) : len # entry_counts[i]
         THEN Some(Reason("map inequality error", <<entry_counts, len>>))
       ELSE None
  ELSE None

(* A visit_group that visits its first group choice only. *)
visit_group_first_choice(jv, g) ==
  LET jv1 == IF Len(g) > 1 THEN [jv EXCEPT !.is_multi_group_choice = TRUE] ELSE jv
      jv2 == [jv1 EXCEPT !.is_ctrl_map_equality = FALSE]
  IN visit_group_choices(jv2, SubSeq(g, 1, 1), 1, Len(jv2.errors))

(* A visit_group that keeps the first error only when every group choice   *)
(* has failed.                                                             *)
visit_group_first_error(jv, g) ==
  LET jv1 == IF Len(g) > 1 THEN [jv EXCEPT !.is_multi_group_choice = TRUE] ELSE jv
      jv2 == [jv1 EXCEPT !.is_ctrl_map_equality = FALSE]
      r == visit_group_choices(jv2, g, 1, Len(jv2.errors))
  IN IF Raised(r) \/ Len(r.errors) = Len(jv2.errors) THEN r
     ELSE [r EXCEPT !.errors = Truncate(@, Len(jv2.errors) + 1)]

visit_group(jv, g) ==
  LET jv1 == IF Len(g) > 1 THEN [jv EXCEPT !.is_multi_group_choice = TRUE] ELSE jv
      e == MapEqualityError(jv1, g)
  IN IF IsSome(e) THEN add_error(jv1, Unwrap(e))
     ELSE LET jv2 == [jv1 EXCEPT !.is_ctrl_map_equality = FALSE]
          IN visit_group_choices(jv2, g, 1, Len(jv2.errors))

visit_group_choice_enum(jv, tcs, i, initial_error_count) ==
  IF i > Len(tcs) THEN jv
  ELSE LET r == Call("visit_type_choice", jv, <<tcs[i]>>) IN
       IF Raised(r) THEN r
       ELSE IF Len(r.errors) = Len(jv.errors)
            THEN [r EXCEPT !.errors = Truncate(@, initial_error_count)]
            ELSE visit_group_choice_enum(r, tcs, i + 1, initial_error_count)

(* idx is the 0-based index of the entry, as in the source. *)
visit_group_entries(jv, gc, idx) ==
  IF idx >= Len(gc) THEN jv
  ELSE LET r == Call("visit_group_entry", [jv EXCEPT !.group_entry_idx = Some(idx)], <<gc[idx + 1]>>) IN
       IF Raised(r) THEN r ELSE visit_group_entries(r, gc, idx + 1)

visit_group_choice(jv, gc) ==
  IF jv.is_group_to_choice_enum
  THEN visit_group_choice_enum(jv, type_choices_from_group_choice(jv.cddl, gc), 1, Len(jv.errors))
  ELSE visit_group_entries(jv, gc, 0)

(***************************************************************************)
(* The array walk that visit_range, visit_type2 (a map type), visit_       *)
(* identifier and visit_value share: `call` is the visit each element's    *)
(* subcontext repeats.                                                     *)
(***************************************************************************)
CallRange(lower, upper, is_inclusive) ==
  [f |-> "visit_range", args |-> <<lower, upper, is_inclusive>>]
CallGroup(group) == [f |-> "visit_group", args |-> <<group>>]
CallIdentifier(ident) == [f |-> "visit_identifier", args |-> <<ident>>]
CallValue(value) == [f |-> "visit_value", args |-> <<value>>]

visit_call(jv, call) == Call(call.f, jv, call.args)

(* The subcontext of the element at 0-based index idx. *)
ItemValidator(jv, v, idx) ==
  [New(jv.cddl, v) EXCEPT !.generic_rules = jv.generic_rules,
                          !.eval_generic_rule = jv.eval_generic_rule,
                          !.is_multi_type_choice = jv.is_multi_type_choice,
                          !.cbor_location = jv.cbor_location \o "/" \o ToString(idx),
                          !.depth = jv.depth]

visit_array_item(jv, a, idx, call) ==
  LET r == visit_call(ItemValidator(jv, a[idx + 1], idx), call) IN
  IF Raised(r) THEN [jv EXCEPT !.ret = r.ret]
  ELSE [jv EXCEPT !.errors = @ \o r.errors]

visit_array_items(jv, a, idx, call) ==
  IF idx >= Len(a) THEN jv
  ELSE LET r == visit_array_item(jv, a, idx, call) IN
       IF Raised(r) THEN r ELSE visit_array_items(r, a, idx + 1, call)

visit_array(jv, a, call) ==
  LET allow_empty_array == IsOccur(jv.occurence, "Optional")
      occ == cbor_validate_array_occurrence(jv.occurence, a)
      take_counts == ~occ.iter_items /\ ~allow_empty_array /\ IsSome(jv.entry_counts)
      jv1 == IF take_counts THEN [jv EXCEPT !.entry_counts = None] ELSE jv
      jv2 == [jv1 EXCEPT !.group_entry_idx = None]
  IN IF ~occ.ok THEN add_error(jv, Reason(occ.e, <<>>))
     ELSE IF take_counts /\ ~\E i \in 1..Len(Unwrap(jv.entry_counts)) :
                                 Unwrap(jv.entry_counts)[i] = Len(a)
       THEN add_error(jv1, Reason("expecting array with one of the lengths",
                                  <<Unwrap(jv.entry_counts), Len(a)>>))
     ELSE IF occ.iter_items THEN visit_array_items(jv1, a, 0, call)
     ELSE IF IsSome(jv1.group_entry_idx) THEN
       LET idx == Unwrap(jv1.group_entry_idx) IN
       IF idx < Len(a) THEN visit_array_item(jv2, a, idx, call)
       ELSE IF ~allow_empty_array
         THEN add_error(jv2, Reason("expected item at index", <<call, idx>>))
       ELSE jv2
     ELSE add_error(jv2, Reason("expected, got array", <<call, jv.cbor>>))

(* Whether v lies in the range lower..upper (inclusive) or lower...upper. *)
InRange_closed(v, l, u, is_inclusive) == ~(v < l \/ v > u)
InRange(v, l, u, is_inclusive) ==
  IF is_inclusive THEN ~(v < l \/ v > u) ELSE ~(v <= l \/ v >= u)

visit_range(jv, lower, upper, is_inclusive) ==
  LET cbor == jv.cbor
      error_str == Reason("expected value to be in range", <<lower.value, upper.value, is_inclusive, cbor>>)
      IntegerRange == IF cbor.k = "Integer" /\ InRange(cbor.v, lower.value, upper.value, is_inclusive)
                      THEN jv ELSE add_error(jv, error_str)
  IN
  IF cbor.k = "Array" THEN visit_array(jv, cbor.v, CallRange(lower, upper, is_inclusive))
  ELSE CASE lower.t2 = "IntValue" ->
              IF upper.t2 \in {"IntValue", "UintValue"} THEN IntegerRange
              ELSE add_error(jv, Reason("invalid cddl range. upper value must be an integer type", upper))
         [] lower.t2 = "UintValue" ->
              IF upper.t2 # "UintValue"
                THEN add_error(jv, Reason("invalid cddl range. upper value must be a uint type", upper))
              ELSE IF cbor.k = "Text" THEN
                IF IsSome(jv.ctrl) /\ Unwrap(jv.ctrl) = "SIZE" THEN
                  IF InRange(Len(cbor.v), lower.value, upper.value, is_inclusive) THEN jv
                  ELSE add_error(jv, Reason("expected string length to be in the range",
                                            <<cbor.v, lower.value, upper.value, is_inclusive>>))
                ELSE add_error(jv, Reason("string value cannot be validated against a range without the .size control operator", <<>>))
              ELSE IntegerRange
         [] lower.t2 = "FloatValue" ->
              IF upper.t2 # "FloatValue"
                THEN add_error(jv, Reason("invalid cddl range. upper value must be a float type", upper))
              ELSE IF cbor.k = "Float" /\ InRange(cbor.v, lower.value, upper.value, is_inclusive)
                THEN jv ELSE add_error(jv, error_str)
         [] OTHER ->
              add_error(jv, Reason("invalid cddl range. upper and lower values must be either integers or floats", <<>>))

(* self.ctrl = t; self.visit_type2(controller)?; self.ctrl = None *)
UnderCtrl(jv, t, controller) ==
  LET r == Call("visit_type2", [jv EXCEPT !.ctrl = t], <<controller>>) IN
  IF Raised(r) THEN r ELSE [r EXCEPT !.ctrl = None]

(* The same with is_ctrl_map_equality set around the controller's visit. *)
UnderMapEquality(jv, t, controller) ==
  LET r == Call("visit_type2", [jv EXCEPT !.ctrl = t, !.is_ctrl_map_equality = TRUE], <<controller>>) IN
  IF Raised(r) THEN r ELSE [r EXCEPT !.ctrl = None, !.is_ctrl_map_equality = FALSE]

IsTypename(target) == target.t2 = "Typename"

(* A control operator whose rollback empties the error list. *)
visit_control_operator_emptying(jv, target, ctrl, controller) ==
  add_error([jv EXCEPT !.errors = <<>>], Reason("unsupported control operator", <<ctrl>>))

visit_control_operator(jv, target, ctrl, controller) ==
  LET t == lookup_control_from_str(ctrl)
      tok == IF IsSome(t) THEN Unwrap(t) ELSE "UNSUPPORTED"
      StringOrNumeric(cddl, ident) ==
        is_ident_string_data_type(cddl, ident) \/ is_ident_numeric_data_type(cddl, ident)
      StringOrUint(cddl, ident) ==
        is_ident_string_data_type(cddl, ident) \/ is_ident_uint_data_type(cddl, ident)
  IN
  CASE tok = "EQ" ->
        (CASE target.t2 = "Typename" ->
                IF StringOrNumeric(jv.cddl, target.ident) THEN Call("visit_type2", jv, <<controller>>) ELSE jv
           [] target.t2 = "Array" ->
                IF jv.cbor.k = "Array" THEN
                  LET r == Call("visit_type2", [jv EXCEPT !.entry_counts =
                                          Some(entry_counts_from_group(jv.cddl, target.group))], <<controller>>)
                  IN IF Raised(r) THEN r ELSE [r EXCEPT !.entry_counts = None]
                ELSE jv
           [] target.t2 = "Map" ->
                IF jv.cbor.k = "Map" THEN UnderMapEquality(jv, t, controller) ELSE jv
           [] OTHER -> add_error(jv, Reason("target for .eq operator must be a string, numerical, array or map data type", target)))
    [] tok = "NE" ->
        (CASE target.t2 = "Typename" ->
                IF StringOrNumeric(jv.cddl, target.ident) THEN UnderCtrl(jv, t, controller) ELSE jv
           [] target.t2 = "Array" ->
                IF jv.cbor.k = "Array" THEN UnderCtrl(jv, t, controller) ELSE jv
           [] target.t2 = "Map" ->
                IF jv.cbor.k = "Map" THEN UnderMapEquality(jv, t, controller) ELSE jv
           [] OTHER -> add_error(jv, Reason("target for .ne operator must be a string, numerical, array or map data type", target)))
    [] tok \in {"LT", "GT", "GE", "LE"} ->
         IF (IsTypename(target) /\ is_ident_numeric_data_type(jv.cddl, target.ident)) THEN UnderCtrl(jv, t, controller)
         ELSE add_error(jv, Reason("target for .lt, .gt, .ge or .le operator must be a numerical data type", target))
    [] tok = "SIZE" ->
         IF (IsTypename(target) /\ StringOrUint(jv.cddl, target.ident)) THEN UnderCtrl(jv, t, controller)
         ELSE add_error(jv, Reason("target for .size must a string or uint data type", target))
    [] tok = "AND" ->
         LET r1 == Call("visit_type2", [jv EXCEPT !.ctrl = t], <<target>>)
             r2 == Call("visit_type2", r1, <<controller>>)
         IN IF Raised(r1) THEN r1 ELSE IF Raised(r2) THEN r2 ELSE [r2 EXCEPT !.ctrl = None]
    [] tok = "WITHIN" ->
         LET error_count == Len(jv.errors)
             r1 == Call("visit_type2", [jv EXCEPT !.ctrl = t], <<target>>)
             no_errors == Len(r1.errors) = error_count
             r2 == Call("visit_type2", r1, <<controller>>)
             r3 == IF no_errors /\ Len(r2.errors) > error_count
                   THEN add_error([r2 EXCEPT !.errors = Truncate(@, error_count)],
                                  Reason("expected type .within type", <<target, controller, jv.cbor>>))
                   ELSE r2
         IN IF Raised(r1) THEN r1 ELSE IF Raised(r2) THEN r2 ELSE [r3 EXCEPT !.ctrl = None]
    [] tok = "DEFAULT" ->
         LET error_count == Len(jv.errors)
             r1 == Call("visit_type2", [jv EXCEPT !.ctrl = t], <<target>>)
             r2 == IF Len(r1.errors) # error_count
                   THEN (IF IsOccur(r1.occurence, "Optional")
                         THEN add_error([r1 EXCEPT !.occurence = None],
                                        Reason("expected default value", <<controller, jv.cbor>>))
                         ELSE [r1 EXCEPT !.occurence = None])
                   ELSE r1
         IN IF Raised(r1) THEN r1 ELSE [r2 EXCEPT !.ctrl = None]
    [] tok \in {"REGEXP", "PCRE"} ->
         LET jv1 == [jv EXCEPT !.ctrl = t]
             r == IF (IsTypename(target) /\ is_ident_string_data_type(jv.cddl, target.ident)) THEN
                    IF jv.cbor.k = "Text" THEN Call("visit_type2", jv1, <<controller>>)
                    ELSE add_error(jv1, Reason(".regexp/.pcre control can only be matched against cbor string", jv.cbor))
                  ELSE add_error(jv1, Reason(".regexp/.pcre control can only be matched against string data type", target))
         IN IF Raised(r) THEN r ELSE [r EXCEPT !.ctrl = None]
    [] OTHER -> add_error(jv, Reason("unsupported control operator", ctrl))

(* The binding of a generic rule's arguments at a use site ident<args>. *)
BindGenericArgs(jv, ident, args, rule) ==
  LET S == {i \in 1..Len(jv.generic_rules) : jv.generic_rules[i].name = ident}
      params == generic_params_from_rule(rule)
  IN IF S # {}
     THEN LET i == CHOOSE x \in S : \A y \in S : x <= y
          IN [jv EXCEPT !.generic_rules[i].args = @ \o args]
     ELSE IF IsSome(params)
          THEN [jv EXCEPT !.generic_rules =
                  Append(@, [name |-> ident, params |-> Unwrap(params), args |-> args])]
          ELSE jv

(* The subcontext that evaluates the generic rule `ident` on the same value. *)
GenericValidator(jv, ident, group_to_choice_enum) ==
  [New(jv.cddl, jv.cbor) EXCEPT !.generic_rules = jv.generic_rules,
                                !.eval_generic_rule = Some(ident),
                                !.is_group_to_choice_enum = group_to_choice_enum,
                                !.is_multi_type_choice = jv.is_multi_type_choice,
                                !.depth = jv.depth + 1]

(* Typename / ChoiceFromGroup with generic arguments naming a rule. *)
visit_generic_rule(jv, ident, args, rule, group_to_choice_enum) ==
  LET jv1 == BindGenericArgs(jv, ident, args, rule)
      r == Call("visit_rule", GenericValidator(jv1, ident, group_to_choice_enum), <<rule>>)
  IN IF jv.depth >= MaxDepth THEN Overflow(jv1)
     ELSE IF Raised(r) THEN [jv1 EXCEPT !.ret = r.ret]
     ELSE [jv1 EXCEPT !.errors = @ \o r.errors]

visit_type2(jv, t2) ==
  CASE t2.t2 = "TextValue" -> Call("visit_value", jv, <<TEXT(t2.value)>>)
    [] t2.t2 = "Map" ->
         (CASE jv.cbor.k = "Map" ->
                 LET r == Call("visit_group", jv, <<t2.group>>) IN
                 IF Raised(r) THEN r ELSE [r EXCEPT !.is_cut_present = FALSE, !.cut_value = None]
            [] jv.cbor.k = "Array" ->
                 IF jv.is_member_key THEN jv ELSE visit_array(jv, jv.cbor.v, CallGroup(t2.group))
            [] OTHER -> add_error(jv, Reason("expected map object, got", <<t2, jv.cbor>>)))
    [] t2.t2 = "Array" ->
         IF jv.cbor.k = "Array" THEN
           LET r == Call("visit_group", [jv EXCEPT !.entry_counts =
                                   Some(entry_counts_from_group(jv.cddl, t2.group))], <<t2.group>>)
           IN IF Raised(r) THEN r ELSE [r EXCEPT !.entry_counts = None]
         ELSE add_error(jv, Reason("expected array type, got", jv.cbor))
    [] t2.t2 = "ChoiceFromGroup" ->
         IF IsSome(t2.generic_args) /\ IsSome(rule_from_ident(jv.cddl, t2.ident))
         THEN visit_generic_rule(jv, t2.ident, Unwrap(t2.generic_args),
                                 Unwrap(rule_from_ident(jv.cddl, t2.ident)), TRUE)
         ELSE IF IsNone(group_rule_from_ident(jv.cddl, t2.ident))
         THEN add_error(jv, Reason("rule must be a group rule to turn it into a choice", t2.ident))
         ELSE LET r == Call("visit_identifier", [jv EXCEPT !.is_group_to_choice_enum = TRUE], <<t2.ident>>)
              IN IF Raised(r) THEN r ELSE [r EXCEPT !.is_group_to_choice_enum = FALSE]
    [] t2.t2 = "ChoiceFromInlineGroup" ->
         LET r == Call("visit_group", [jv EXCEPT !.is_group_to_choice_enum = TRUE], <<t2.group>>)
         IN IF Raised(r) THEN r ELSE [r EXCEPT !.is_group_to_choice_enum = FALSE]
    [] t2.t2 = "Typename" ->
         IF IsSome(t2.generic_args) /\ IsSome(rule_from_ident(jv.cddl, t2.ident))
         THEN visit_generic_rule(jv, t2.ident, Unwrap(t2.generic_args),
                                 Unwrap(rule_from_ident(jv.cddl, t2.ident)), FALSE)
         ELSE Call("visit_identifier", jv, <<t2.ident>>)
    [] t2.t2 = "IntValue" -> Call("visit_value", jv, <<INT(t2.value)>>)
    [] t2.t2 = "UintValue" -> Call("visit_value", jv, <<UINT(t2.value)>>)
    [] t2.t2 = "FloatValue" -> Call("visit_value", jv, <<FLOAT(t2.value)>>)
    [] t2.t2 = "ParenthesizedType" -> Call("visit_type", jv, <<t2.pt>>)
    [] t2.t2 = "Any" -> jv
    [] OTHER -> add_error(jv, Reason("unsupported data type for validating cbor, got", t2))

(* The argument bound to ident by the generic rule under evaluation, if any. *)
GenericArgFor(jv, ident) ==
  IF IsNone(jv.eval_generic_rule) THEN None
  ELSE LET S == {i \in 1..Len(jv.generic_rules) :
                   jv.generic_rules[i].name = Unwrap(jv.eval_generic_rule)}
       IN IF S = {} THEN None
          ELSE LET gr == jv.generic_rules[CHOOSE x \in S : \A y \in S : x <= y]
                   P == {idx \in 1..Len(gr.params) : gr.params[idx] = ident /\ idx <= Len(gr.args)}
               IN IF P = {} THEN None
                  ELSE Some(gr.args[CHOOSE x \in P : \A y \in P : x <= y])

(* A call that nests one more rule resolution onto the call stack. *)
Deeper(jv) == [jv EXCEPT !.depth = @ + 1]
Shallower(jv, r) == [r EXCEPT !.depth = jv.depth]

visit_identifier(jv, ident) ==
  LET cbor == jv.cbor
      arg == GenericArgFor(jv, ident)
      rule == rule_from_ident(jv.cddl, ident)
      tok == lookup_ident(ident)
      expected == add_error(jv, Reason("expected type", <<ident, cbor>>))
  IN
  IF IsSome(arg) THEN
    IF jv.depth >= MaxDepth THEN Overflow(jv)
    ELSE Shallower(jv, Call("visit_type1", Deeper(jv), <<Unwrap(arg)>>))
  ELSE IF IsSome(rule) THEN
    IF jv.depth >= MaxDepth THEN Overflow(jv)
    ELSE Shallower(jv, Call("visit_rule", Deeper(jv), <<Unwrap(rule)>>))
  ELSE
  CASE cbor.k = "Null" /\ is_ident_null_data_type(jv.cddl, ident) -> jv
    [] cbor.k = "Bytes" /\ is_ident_byte_string_data_type(jv.cddl, ident) -> jv
    [] cbor.k = "Bool" ->
         IF tok = "BOOL" \/ (tok = "TRUE" /\ cbor.v) \/ (tok = "FALSE" /\ ~cbor.v) THEN jv
         ELSE expected
    [] cbor.k = "Integer" ->
         IF tok \in {"INT", "INTEGER"} \/ (tok = "UINT" /\ cbor.v >= 0) THEN jv ELSE expected
    [] cbor.k = "Float" ->
         IF tok \in {"FLOAT", "FLOAT16", "FLOAT1632", "FLOAT32", "FLOAT3264", "FLOAT64"} THEN jv
         ELSE expected
    [] cbor.k = "Text" /\ is_ident_string_data_type(jv.cddl, ident) -> jv
    [] cbor.k = "Array" ->
         IF jv.is_member_key THEN jv ELSE visit_array(jv, cbor.v, CallIdentifier(ident))
    [] cbor.k = "Map" ->
         LET m == cbor.v
             pattern == IsOccur(jv.occurence, "ZeroOrMore") \/ IsOccur(jv.occurence, "OneOrMore")
         IN IF pattern /\ IsOccur(jv.occurence, "OneOrMore") /\ Len(m) = 0
              THEN add_error(jv, Reason("map cannot be empty, require one oe more entries with key type", ident))
            ELSE IF pattern /\ is_ident_string_data_type(jv.cddl, ident)
              THEN (IF \A i \in 1..Len(m) : m[i].key.k = "Text" THEN jv
                    ELSE add_error(jv, Reason("map requires entry keys of type", ident)))
            ELSE IF pattern /\ is_ident_integer_data_type(jv.cddl, ident)
              THEN (IF \A i \in 1..Len(m) : m[i].key.k = "Integer" THEN jv
                    ELSE add_error(jv, Reason("map requires entry keys of type", ident)))
            ELSE Call("visit_value", jv, <<TEXT(ident)>>)
    [] OTHER ->
         IF IsSome(jv.cut_value)
         THEN add_error([jv EXCEPT !.cut_value = None],
                        Reason("cut present for member key. expected type", <<Unwrap(jv.cut_value), ident, cbor>>))
         ELSE expected

(* The subcontext that checks the value found under a member key. *)
EntryValidator(jv, v) ==
  [New(jv.cddl, v) EXCEPT !.generic_rules = jv.generic_rules,
                          !.eval_generic_rule = jv.eval_generic_rule,
                          !.is_multi_type_choice = jv.is_multi_type_choice,
                          !.is_multi_group_choice = jv.is_multi_group_choice,
                          !.cbor_location = jv.cbor_location,
                          !.type_group_name_entry = jv.type_group_name_entry,
                          !.depth = jv.depth]

visit_value_member_key_entry(jv, entry) ==
  LET jv1 == IF IsSome(entry.occur) THEN visit_occurrence(jv, Unwrap(entry.occur)) ELSE jv
      current_location == jv1.cbor_location
      error_count == Len(jv1.errors)
      mk == IF IsSome(entry.member_key)
            THEN Call("visit_memberkey", [jv1 EXCEPT !.is_member_key = TRUE], <<Unwrap(entry.member_key)>>)
            ELSE jv1
      jv2 == IF IsSome(entry.member_key) THEN [mk EXCEPT !.is_member_key = FALSE] ELSE jv1
      jv3 == [jv2 EXCEPT !.object_value = None]
      r == Call("visit_type", EntryValidator(jv3, Unwrap(jv2.object_value)), <<entry.entry_type>>)
  IN IF Raised(mk) THEN mk
     ELSE IF Len(jv2.errors) # error_count THEN [jv2 EXCEPT !.advance_to_next_entry = TRUE]
     ELSE IF IsSome(jv2.object_value) THEN
       IF Raised(r) THEN [jv3 EXCEPT !.ret = r.ret]
       ELSE [jv3 EXCEPT !.cbor_location = current_location,
                        !.errors = @ \o r.errors,
                        !.occurence = IF IsSome(entry.occur) THEN None ELSE @]
     ELSE IF ~jv2.advance_to_next_entry THEN Call("visit_type", jv2, <<entry.entry_type>>)
     ELSE jv2

visit_type_groupname_entry(jv, entry) ==
  LET r == walk_type_groupname_entry([jv EXCEPT !.type_group_name_entry = Some(entry.name)], entry)
  IN IF Raised(r) THEN r ELSE [r EXCEPT !.type_group_name_entry = None]

visit_memberkey(jv, mk) ==
  walk_memberkey(IF mk.mk = "Type1" THEN [jv EXCEPT !.is_cut_present = mk.is_cut] ELSE jv, mk)

(* The comparison of an Integer or Float value with a literal under self.ctrl. *)
NumericMatch(ctrl, i, v, with_size) ==
  IF IsNone(ctrl) THEN i = v
  ELSE LET c == Unwrap(ctrl) IN
       \/ c = "NE" /\ i # v
       \/ c = "LT" /\ i < v
       \/ c = "LE" /\ i <= v
       \/ c = "GT" /\ i > v
       \/ c = "GE" /\ i >= v
       \/ with_size /\ c = "SIZE" /\ LessThanPow256(i, v)

visit_value(jv, value) ==
  LET cbor == jv.cbor
      ctrl == jv.ctrl
      expected == add_error(jv, Reason("expected, got", <<value, cbor>>))
      expected_value == add_error(jv, Reason("expected value", <<ctrl, value.v, cbor.v>>))
  IN
  CASE cbor.k = "Integer" ->
         IF value.tv \in {"INT", "UINT"} THEN
           IF /\ value.tv = "UINT" /\ IsSome(ctrl) /\ Unwrap(ctrl) = "SIZE"
              /\ PowOverflows(value.v) /\ overflow_checks
           THEN Panic(jv)
           ELSE IF NumericMatch(ctrl, cbor.v, value.v, value.tv = "UINT") THEN jv ELSE expected_value
         ELSE expected
    [] cbor.k = "Float" ->
         IF value.tv = "FLOAT" THEN
           IF NumericMatch(ctrl, cbor.v, value.v, FALSE) THEN jv ELSE expected_value
         ELSE expected
    [] cbor.k = "Text" ->
         (CASE value.tv = "TEXT" ->
                 IF IsSome(ctrl) /\ Unwrap(ctrl) = "NE" THEN
                   IF cbor.v # value.v THEN jv
                   ELSE add_error(jv, Reason("expected .ne to", <<value, cbor.v>>))
                 ELSE IF IsSome(ctrl) /\ Unwrap(ctrl) \in {"REGEXP", "PCRE"} THEN
                   IF ~RegexCompiles(value.v)
                     THEN Err(jv, from_validator(jv, Reason("regex parse error", value.v)))
                   ELSE IF RegexIsMatch(value.v, cbor.v) THEN jv
                   ELSE add_error(jv, Reason("expected to match regex", <<cbor.v, value.v>>))
                 ELSE IF cbor.v = value.v THEN jv ELSE expected_value
            [] value.tv = "UINT" ->
                 IF IsSome(ctrl) /\ Unwrap(ctrl) = "SIZE" THEN
                   IF Len(cbor.v) = value.v THEN jv
                   ELSE add_error(jv, Reason("expected .size, got", <<cbor.v, value.v, Len(cbor.v)>>))
                 ELSE expected
            [] value.tv = "BYTE" -> IF cbor.v = value.v THEN jv ELSE expected
            [] OTHER -> expected)
    [] cbor.k = "Array" ->
         IF jv.is_member_key THEN jv ELSE visit_array(jv, cbor.v, CallValue(value))
    [] cbor.k = "Map" ->
         LET jv1 == IF jv.is_cut_present
                    THEN [jv EXCEPT !.cut_value = Some(Type1FromValue(value))] ELSE jv
             v == MapGet(cbor.v, token_value_into_cbor_value(value))
             jv2 == [jv1 EXCEPT !.occurence = None]
         IN IF value.tv = "TEXT" /\ value.v = "any" THEN jv1
            ELSE IF IsSome(v)
              THEN [jv1 EXCEPT !.object_value = v,
                               !.cbor_location = @ \o "/" \o ToString(value.v)]
            ELSE IF IsOccur(jv1.occurence, "Optional") \/ IsOccur(jv1.occurence, "ZeroOrMore")
              THEN [jv2 EXCEPT !.advance_to_next_entry = TRUE]
            ELSE IF IsSome(ctrl) /\ Unwrap(ctrl) = "NE" THEN jv2
            ELSE add_error(jv2, Reason("object missing key", value))
    [] OTHER -> expected

Call(f, jv, args) ==
  CASE f = "visit_rule" -> visit_rule(jv, args[1])
    [] f = "visit_type_rule" -> visit_type_rule(jv, args[1])
    [] f = "visit_group_rule" -> visit_group_rule(jv, args[1])
    [] f = "visit_type" -> visit_type(jv, args[1])
    [] f = "visit_type_choice" -> visit_type_choice(jv, args[1])
    [] f = "visit_group" -> visit_group(jv, args[1])
    [] f = "visit_group_choice" -> visit_group_choice(jv, args[1])
    [] f = "visit_group_entry" -> visit_group_entry(jv, args[1])
    [] f = "visit_type1" -> visit_type1(jv, args[1])
    [] f = "visit_range" -> visit_range(jv, args[1], args[2], args[3])
    [] f = "visit_control_operator" -> visit_control_operator(jv, args[1], args[2], args[3])
    [] f = "visit_type2" -> visit_type2(jv, args[1])
    [] f = "visit_identifier" -> visit_identifier(jv, args[1])
    [] f = "visit_value" -> visit_value(jv, args[1])
    [] f = "visit_value_member_key_entry" -> visit_value_member_key_entry(jv, args[1])
    [] f = "visit_type_groupname_entry" -> visit_type_groupname_entry(jv, args[1])
    [] f = "visit_inline_group_entry" -> visit_inline_group_entry(jv, args[1], args[2])
    [] f = "visit_memberkey" -> visit_memberkey(jv, args[1])

(***************************************************************************)
(* CBORValidator::validate: the validator after the call and its Result.   *)
(***************************************************************************)
(* The first type rule is root, generic or not. *)
RootRule_first_type(cddl) ==
  LET S == {i \in 1..Len(cddl) : cddl[i].r = "Type"}
  IN IF S = {} THEN None ELSE Some(cddl[CHOOSE x \in S : \A y \in S : x <= y])

IsRoot(r) == r.r = "Type" /\ IsNone(r.generic_params)

RootRule(cddl) ==
  LET S == {i \in 1..Len(cddl) : IsRoot(cddl[i])}
  IN IF S = {} THEN None ELSE Some(cddl[CHOOSE x \in S : \A y \in S : x <= y])

ResultOk == [kind |-> "Ok", errors |-> <<>>]
ResultValidation(errors) == [kind |-> "Validation", errors |-> errors]
ResultStackOverflow == [kind |-> "StackOverflow", errors |-> <<>>]
ResultPanic == [kind |-> "Panic", errors |-> <<>>]

(* A validate that reports a program without a root rule. *)
validate_visit_requires_root(jv) ==
  IF IsSome(RootRule(jv.cddl)) THEN visit_type_rule(jv, Unwrap(RootRule(jv.cddl)))
  ELSE add_error(jv, Reason("no root rule", <<>>))

(* A validate that drops the Err of the root rule's visit. *)
validate_result_ignoring_err(jv) ==
  IF Len(jv.errors) # 0 THEN ResultValidation(jv.errors) ELSE ResultOk

validate_visit(jv) ==
  IF IsSome(RootRule(jv.cddl)) THEN visit_type_rule(jv, Unwrap(RootRule(jv.cddl))) ELSE jv

validate_result(jv) ==
  IF Raised(jv) THEN
    IF Unwrap(jv.ret).kind = "StackOverflow" THEN ResultStackOverflow
    ELSE IF Unwrap(jv.ret).kind = "Panic" THEN ResultPanic
    ELSE ResultValidation(<<Unwrap(jv.ret).e>>)
  ELSE IF Len(jv.errors) # 0 THEN ResultValidation(jv.errors)
  ELSE ResultOk

(***************************************************************************)
(* src/validator.rs: the JSON validator.  A serde_json::Value is written   *)
(* with the constructors above (Number is Integer or Float, String is      *)
(* Text, Object is Map with Text keys).  `self` is the CDDL with the depth *)
(* of the call stack; a Result is JOk or JErr(e).                          *)
(***************************************************************************)
JOk == [ok |-> TRUE, e |-> [kind |-> "", msg |-> "", errors |-> <<>>]]
JErr(e) == [ok |-> FALSE, e |-> e]
ErrCDDL(msg) == [kind |-> "CDDL", msg |-> ToString(msg), errors |-> <<>>]
ErrJSON(expected_memberkey, expected_value, actual_memberkey, actual_value) ==
  [kind |-> "JSON",
   msg |-> ToString(<<expected_memberkey, expected_value, actual_memberkey, actual_value>>),
   errors |-> <<>>]
ErrOccurrence(msg) == [kind |-> "Occurrence", msg |-> ToString(msg), errors |-> <<>>]
MultiError(errors) == [kind |-> "MultiError", msg |-> "", errors |-> errors]
(* Not a Result: the thread panicked (unimplemented!) or exhausted its stack. *)
JPanic == JErr([kind |-> "Panic", msg |-> "not implemented", errors |-> <<>>])
JStackOverflow == JErr([kind |-> "StackOverflow", msg |-> "", errors |-> <<>>])
Aborted(r) == ~r.ok /\ r.e.kind \in {"Panic", "StackOverflow"}

RECURSIVE IsJson(_)
IsJson(v) ==
  CASE v.k = "Bytes" -> FALSE
    [] v.k = "Array" -> \A i \in 1..Len(v.v) : IsJson(v.v[i])
    [] v.k = "Map" -> \A i \in 1..Len(v.v) : v.v[i].key.k = "Text" /\ IsJson(v.v[i].val)
    [] OTHER -> TRUE
IsNumber(json) == json.k \in {"Integer", "Float"}
as_i64(n) == IF n.k = "Integer" THEN Some(n.v) ELSE None
as_u64(n) == IF n.k = "Integer" /\ n.v >= 0 THEN Some(n.v) ELSE None
as_f64(n) == IF n.k = "Integer" THEN Some(10 * n.v) ELSE Some(n.v)

(* The literal of a Type2 as the token::Value of Type2::Value, if it is one. *)
Type2Value(t2) ==
  CASE t2.t2 = "IntValue" -> Some(INT(t2.value))
    [] t2.t2 = "UintValue" -> Some(UINT(t2.value))
    [] t2.t2 = "FloatValue" -> Some(FLOAT(t2.value))
    [] t2.t2 = "TextValue" -> Some(TEXT(t2.value))
    [] OTHER -> None

(* Display of a Type: a lone type name prints as its identifier. *)
TypeToString(t) ==
  IF Len(t) = 1 /\ IsNone(t[1].operator) /\ t[1].type2.t2 = "Typename"
    /\ IsNone(t[1].type2.generic_args)
  THEN t[1].type2.ident ELSE ToString(t)

is_type_json_prelude(t) ==
  t \in {"any", "uint", "nint", "tstr", "text", "number", "float16", "float32", "float64",
         "float16-32", "float32-64", "float", "false", "true", "bool", "nil", "null"}

validate_string_value(v, s) ==
  IF v.tv = "TEXT" /\ v.v = s THEN JOk ELSE JErr(ErrJSON(None, v, None, Text(s)))

validate_numeric_value(v, json) ==
  IF ~IsNumber(json) THEN JErr(ErrJSON(None, v, None, json))
  ELSE CASE v.tv = "INT" ->
              IF IsSome(as_i64(json)) /\ Unwrap(as_i64(json)) = v.v THEN JOk
              ELSE JErr(ErrJSON(None, v, None, json))
         [] v.tv = "FLOAT" ->
              IF IsSome(as_f64(json)) /\ Unwrap(as_f64(json)) = v.v THEN JOk
              ELSE JErr(ErrJSON(None, v, None, json))
         [] OTHER -> JOk

validate_numeric_data_type(expected_memberkey, actual_memberkey, ident, json) ==
  LET e == JErr(ErrJSON(expected_memberkey, ident, actual_memberkey, json)) IN
  IF ~IsNumber(json) THEN e
  ELSE CASE ident = "uint" -> IF IsSome(as_u64(json)) THEN JOk ELSE e
         [] ident = "nint" -> IF IsSome(as_i64(json)) /\ Unwrap(as_i64(json)) < 0 THEN JOk ELSE e
         [] ident = "int" -> IF IsSome(as_i64(json)) THEN JOk ELSE e
         [] ident = "number" -> JOk
         [] ident = "float16" -> IF IsSome(as_f64(json)) THEN JOk ELSE e
         [] ident = "float32" -> IF IsSome(as_f64(json)) THEN JOk ELSE e
         [] OTHER -> e

expect_null(ident) ==
  IF ident \in {"null", "nil"} THEN JOk ELSE JErr(ErrJSON(None, ident, None, Null))

expect_bool(ident, json) ==
  IF json.k # "Bool" THEN JErr(ErrJSON(None, ident, None, json))
  ELSE IF ident = "bool" THEN JOk
  ELSE IF ident \in {"true", "false"} /\ (ident = "true") = json.v THEN JOk
  ELSE JErr(ErrJSON(None, ident, None, json))

(* A validate_array_occurrence whose upper bound is exclusive. *)
validate_array_occurrence_exclusive(occur, group, values) ==
  CASE occur.o \in {"ZeroOrMore", "Optional"} -> JOk
    [] occur.o = "OneOrMore" ->
         IF Len(values) = 0
         THEN JErr(ErrOccurrence(<<"Expecting one or more values of group", group>>))
         ELSE JOk
    [] OTHER ->
         IF IsSome(occur.lower) /\ Len(values) < Unwrap(occur.lower)
           THEN JErr(ErrOccurrence(<<"Expecting at least", Unwrap(occur.lower), group, Len(values)>>))
         ELSE IF IsSome(occur.upper) /\ Len(values) >= Unwrap(occur.upper)
           THEN JErr(ErrOccurrence(<<"Expecting no more than", Unwrap(occur.upper), group, Len(values)>>))
         ELSE JOk

validate_array_occurrence(occur, group, values) ==
  LET len == Len(values)
      l == occur.lower
      u == occur.upper
  IN
  CASE occur.o \in {"ZeroOrMore", "Optional"} -> JOk
    [] occur.o = "OneOrMore" ->
         IF len = 0 THEN JErr(ErrOccurrence(<<"Expecting one or more values of group", group>>))
         ELSE JOk
    [] OTHER ->
         IF IsSome(l) /\ IsSome(u) /\ (len < Unwrap(l) \/ len > Unwrap(u)) THEN
           IF Unwrap(l) = Unwrap(u)
           THEN JErr(ErrOccurrence(<<"Expecting exactly", Unwrap(l), group, len>>))
           ELSE JErr(ErrOccurrence(<<"Expecting between", Unwrap(l), Unwrap(u), group, len>>))
         ELSE IF IsSome(l) /\ len < Unwrap(l)
           THEN JErr(ErrOccurrence(<<"Expecting at least", Unwrap(l), group, len>>))
         ELSE IF IsSome(u) /\ len > Unwrap(u)
           THEN JErr(ErrOccurrence(<<"Expecting no more than", Unwrap(u), group, len>>))
         ELSE JOk

(* The dispatch of a method of impl CDDL: JCall(f, self, args) is self.f(args). *)
RECURSIVE JCall(_, _, _)
RECURSIVE validate_type_any(_, _, _, _, _, _, _, _), validate_group_any(_, _, _, _, _, _)
RECURSIVE validate_group_choice_entries(_, _, _, _, _)
RECURSIVE validate_values_all(_, _, _, _, _), validate_values_any(_, _, _, _, _, _)

(* The first rule named ident, as the loop of validate_rule_for_ident finds it. *)
validate_rule_for_ident(self, ident, expected_memberkey, actual_memberkey, occur, json) ==
  LET rs == RulesNamed(self.rules, ident)
      deeper == [self EXCEPT !.depth = @ + 1]
  IN
  IF is_type_json_prelude(ident)
    THEN JErr(ErrJSON(expected_memberkey, ident, actual_memberkey, json))
  ELSE IF Len(rs) = 0 THEN JErr(ErrCDDL(<<"No rule with name defined", ident>>))
  ELSE IF self.depth >= MaxDepth THEN JStackOverflow
  ELSE IF rs[1].r = "Type"
    THEN JCall("validate_type_rule", deeper, <<rs[1], expected_memberkey, actual_memberkey, occur, json>>)
  ELSE JCall("validate_group_rule", deeper, <<rs[1], occur, json>>)

validate_type_rule(self, tr, expected_memberkey, actual_memberkey, occur, json) ==
  JCall("validate_type", self, <<tr.value, expected_memberkey, actual_memberkey, occur, json>>)

validate_group_rule(self, gr, occur, json) == JCall("validate_group_entry", self, <<gr.entry, occur, json>>)

(* t.0.iter().any(..) from type choice i on, with the errors pushed so far. *)
validate_type_any(self, t, i, validation_errors, expected_memberkey, actual_memberkey, occur, json) ==
  IF i > Len(t) THEN JErr(MultiError(validation_errors))
  ELSE LET r == JCall("validate_type1", self, <<t[i], expected_memberkey, actual_memberkey, occur, json>>) IN
       IF r.ok \/ Aborted(r) THEN r
       ELSE validate_type_any(self, t, i + 1, Append(validation_errors, r.e),
                              expected_memberkey, actual_memberkey, occur, json)

validate_type(self, t, expected_memberkey, actual_memberkey, occur, json) ==
  validate_type_any(self, t, 1, <<>>, expected_memberkey, actual_memberkey, occur, json)

validate_type1(self, t1, expected_memberkey, actual_memberkey, occur, json) ==
  JCall("validate_type2", self, <<t1.type2, expected_memberkey, actual_memberkey, occur, json>>)

validate_type2(self, t2, expected_memberkey, actual_memberkey, occur, json) ==
  LET e == JErr(ErrJSON(expected_memberkey, t2, actual_memberkey, json)) IN
  CASE IsSome(Type2Value(t2)) ->
         (CASE IsNumber(json) -> validate_numeric_value(Unwrap(Type2Value(t2)), json)
            [] json.k = "Text" -> validate_string_value(Unwrap(Type2Value(t2)), json.v)
            [] OTHER -> e)
    [] t2.t2 = "Typename" ->
         (CASE json.k = "Null" -> expect_null(t2.ident)
            [] json.k = "Bool" -> expect_bool(t2.ident, json)
            [] json.k = "Text" /\ t2.ident \in {"tstr", "text"} -> JOk
            [] IsNumber(json) ->
                 validate_numeric_data_type(expected_memberkey, actual_memberkey, t2.ident, json)
            [] OTHER -> JCall("validate_rule_for_ident", self, <<t2.ident, expected_memberkey,
                                                actual_memberkey, occur, json>>))
    [] t2.t2 = "Array" -> IF json.k = "Array" THEN JCall("validate_group", self, <<t2.group, occur, json>>) ELSE e
    [] t2.t2 = "Map" -> IF json.k = "Map" THEN JCall("validate_group", self, <<t2.group, occur, json>>) ELSE e
    [] OTHER -> JErr(ErrCDDL(<<"CDDL type can't be used to validate JSON", t2, json>>))

(* g.0.iter().any(..) from group choice i on, with the errors pushed so far. *)
validate_group_any(self, g, i, validation_errors, occur, json) ==
  IF i > Len(g) THEN JErr(MultiError(validation_errors))
  ELSE LET r == JCall("validate_group_choice", self, <<g[i], occur, json>>) IN
       IF r.ok \/ Aborted(r) THEN r
       ELSE validate_group_any(self, g, i + 1, Append(validation_errors, r.e), occur, json)

validate_group(self, g, occur, json) == validate_group_any(self, g, 1, <<>>, occur, json)

(* values.iter().all(..): the first element ge rejects, or JOk. *)
validate_values_all(self, ge, occur, values, i) ==
  IF i > Len(values) THEN JOk
  ELSE LET r == JCall("validate_group_entry", self, <<ge, occur, values[i]>>) IN
       IF r.ok THEN validate_values_all(self, ge, occur, values, i + 1) ELSE r

(* values.iter().any(..): JOk at the first element ge accepts, else the errors pushed. *)
validate_values_any(self, ge, occur, values, i, errors) ==
  IF i > Len(values) THEN JErr(MultiError(errors))
  ELSE LET r == JCall("validate_group_entry", self, <<ge, occur, values[i]>>) IN
       IF r.ok \/ Aborted(r) THEN r
       ELSE validate_values_any(self, ge, occur, values, i + 1, Append(errors, r.e))

(* The 'geiter loop of validate_group_choice from entry i on. *)
validate_group_choice_entries(self, gc, i, occur, json) ==
  IF i > Len(gc) THEN JOk
  ELSE
  LET ge == gc[i]
      next == validate_group_choice_entries(self, gc, i + 1, occur, json)
      values == json.v
      occ == CASE ge.ge = "TypeGroupname" /\ IsSome(ge.occur) ->
                    validate_array_occurrence(Unwrap(ge.occur), ge.name, values)
               [] ge.ge = "InlineGroup" /\ IsSome(ge.occur) ->
                    validate_array_occurrence(Unwrap(ge.occur), ge.group, values)
               [] OTHER -> JOk
      names_type_rule == ge.ge = "TypeGroupname"
                         /\ \E k \in 1..Len(self.rules) :
                              self.rules[k].r = "Type" /\ self.rules[k].name = ge.name
      all == validate_values_all(self, ge, occur, values, 1)
      errors == IF names_type_rule THEN <<all.e>> ELSE <<>>
      any == validate_values_any(self, ge, occur, values, 1, errors)
      entry == JCall("validate_group_entry", self, <<ge, occur, json>>)
  IN
  CASE json.k = "Array" ->
         IF ~occ.ok THEN occ
         ELSE IF names_type_rule /\ all.ok THEN JOk
         ELSE IF names_type_rule /\ Aborted(all) THEN all
         ELSE IF names_type_rule THEN JErr(MultiError(errors))
         ELSE IF any.ok THEN next
         ELSE IF Aborted(any) \/ Len(any.e.errors) # 0 THEN any
         ELSE next
    [] json.k = "Map" -> IF entry.ok THEN next ELSE entry
    [] OTHER -> JErr(ErrJSON(None, gc, None, json))

validate_group_choice(self, gc, occur, json) ==
  validate_group_choice_entries(self, gc, 1, occur, json)

validate_group_entry(self, ge, occur, json) ==
  LET vmke == ge
      mk == Unwrap(vmke.member_key)
      (* The lookup of key in the object and the check of its value, or of json. *)
      LookupThenType(key, occ) ==
        LET v == MapGet(json.v, Text(key)) IN
        IF IsSome(v)
        THEN JCall("validate_type", self, <<vmke.entry_type, Some(ToString(mk)), Some(key), occ, Unwrap(v)>>)
        ELSE JCall("validate_type", self, <<vmke.entry_type, Some(ToString(mk)), None, occ, json>>)
      Found(key, occ) ==
        JCall("validate_type", self, <<vmke.entry_type, Some(ToString(mk)), Some(key), occ,
                      Unwrap(MapGet(json.v, Text(key)))>>)
      Unkeyed(occ) == JCall("validate_type", self, <<vmke.entry_type, Some(ToString(mk)), None, occ, json>>)
      key_error == JErr(ErrCDDL("CDDL member key must be quoted string or bareword for validating JSON objects"))
  IN
  CASE ge.ge = "ValueMemberKey" ->
         IF IsNone(vmke.member_key) THEN JPanic
         ELSE (CASE mk.mk = "Type1" ->
                      (CASE mk.t1.type2.t2 = "TextValue" ->
                              LET t == mk.t1.type2.value IN
                              IF json.k # "Map" THEN Unkeyed(occur)
                              ELSE IF ~is_type_json_prelude(TypeToString(vmke.entry_type))
                                THEN LookupThenType(t, occur)
                              ELSE IF IsSome(MapGet(json.v, Text(t))) THEN Found(t, occur)
                              ELSE JErr(ErrJSON(Some(ToString(mk)), ge, None, json))
                         [] mk.t1.type2.t2 = "Typename" /\ mk.t1.type2.ident \in {"tstr", "text"} ->
                              JOk
                         [] OTHER -> key_error)
                 [] mk.mk = "Bareword" ->
                      IF json.k # "Map" THEN Unkeyed(vmke.occur)
                      ELSE IF ~is_type_json_prelude(TypeToString(vmke.entry_type))
                        THEN LookupThenType(mk.ident, vmke.occur)
                      ELSE IF IsSome(MapGet(json.v, Text(mk.ident))) THEN Found(mk.ident, vmke.occur)
                      ELSE IF IsOccur(occur, "Optional") \/ IsOccur(occur, "OneOrMore") THEN JOk
                      ELSE JErr(ErrJSON(Some(ToString(mk)), <<mk, vmke.entry_type>>, None, json))
                 [] OTHER -> key_error)
    [] ge.ge = "TypeGroupname" -> JCall("validate_rule_for_ident", self, <<ge.name, None, None, ge.occur, json>>)
    [] OTHER -> IF IsSome(ge.occur) THEN JCall("validate_group", self, <<ge.group, ge.occur, json>>)
                ELSE JCall("validate_group", self, <<ge.group, occur, json>>)

JCall(f, self, args) ==
  CASE f = "validate_rule_for_ident" ->
         validate_rule_for_ident(self, args[1], args[2], args[3], args[4], args[5])
    [] f = "validate_type_rule" -> validate_type_rule(self, args[1], args[2], args[3], args[4], args[5])
    [] f = "validate_group_rule" -> validate_group_rule(self, args[1], args[2], args[3])
    [] f = "validate_type" -> validate_type(self, args[1], args[2], args[3], args[4], args[5])
    [] f = "validate_type1" -> validate_type1(self, args[1], args[2], args[3], args[4], args[5])
    [] f = "validate_type2" -> validate_type2(self, args[1], args[2], args[3], args[4], args[5])
    [] f = "validate_group" -> validate_group(self, args[1], args[2], args[3])
    [] f = "validate_group_choice" -> validate_group_choice(self, args[1], args[2], args[3])
    [] f = "validate_group_entry" -> validate_group_entry(self, args[1], args[2], args[3])

validate_json(cddl, json) ==
  LET rs == SelectSeq(cddl, LAMBDA rule : rule.r = "Type") IN
  IF Len(rs) = 0 THEN JOk
  ELSE validate_type_rule([rules |-> cddl, depth |-> 0], rs[1], None, None, None, json)

(***************************************************************************)
(* The programs and the values the validators are run on.                  *)
(***************************************************************************)
Ty(ident) == <<T1(Typename(ident))>>
Entry(key, t) == ValueMemberKey(None, Some(Bareword(key)), t)
OptEntry(key, t) == ValueMemberKey(Some(Optional), Some(Bareword(key)), t)
KeyEntry(key, is_cut, t) == ValueMemberKey(None, Some(MkType1(T1(TextValue(key)), is_cut)), t)
Root(t) == <<TypeRule("r", None, t)>>

MessageRule == TypeRule("message", Some(<<"T">>), <<T1(MapT(<<<<Entry("value", Ty("T"))>>>>))>>)

Programs ==
  << (* r = int / tstr *)
     Root(<<T1(Typename("int")), T1(Typename("tstr"))>>),
     (* r = 0 / 1 / "x" *)
     Root(<<T1(UintValue(0)), T1(UintValue(1)), T1(TextValue("x"))>>),
     (* r = { a: int // b: tstr // c: bool } *)
     Root(<<T1(MapT(<<<<Entry("a", Ty("int"))>>, <<Entry("b", Ty("tstr"))>>,
                      <<Entry("c", Ty("bool"))>>>>))>>),
     (* r = { "a" ^ => int // "a" => tstr } *)
     Root(<<T1(MapT(<<<<KeyEntry("a", TRUE, Ty("int"))>>, <<KeyEntry("a", FALSE, Ty("tstr"))>>>>))>>),
     (* r = { "a" => int // "a" => tstr } *)
     Root(<<T1(MapT(<<<<KeyEntry("a", FALSE, Ty("int"))>>, <<KeyEntry("a", FALSE, Ty("tstr"))>>>>))>>),
     (* r = { a: 5, b: tstr .regexp "(" } *)
     Root(<<T1(MapT(<<<<Entry("a", <<T1(UintValue(5))>>),
                        Entry("b", <<CtlOp(Typename("tstr"), ".regexp", TextValue("("))>>)>>>>))>>),
     (* r = tstr .regexp "(" / int *)
     Root(<<CtlOp(Typename("tstr"), ".regexp", TextValue("(")), T1(Typename("int"))>>),
     (* a = int   a = tstr *)
     <<TypeRule("a", None, Ty("int")), TypeRule("a", None, Ty("tstr"))>>,
     (* g<T> = T   grp = (a: int)   r = int   r = tstr *)
     <<TypeRule("g", Some(<<"T">>), Ty("T")), GroupRule("grp", None, Entry("a", Ty("int"))),
       TypeRule("r", None, Ty("int")), TypeRule("r", None, Ty("tstr"))>>,
     (* grp = (a: int) *)
     <<GroupRule("grp", None, Entry("a", Ty("int")))>>,
     (* the empty program *)
     <<>>,
     (* a = a *)
     <<TypeRule("a", None, Ty("a"))>>,
     (* a = b   b = a *)
     <<TypeRule("a", None, Ty("b")), TypeRule("b", None, Ty("a"))>>,
     (* root = message<int> / message<tstr>   message<T> = { value: T } *)
     <<TypeRule("root", None, <<T1(TypenameG("message", <<T1(Typename("int"))>>)),
                                T1(TypenameG("message", <<T1(Typename("tstr"))>>))>>),
       MessageRule>>,
     (* root = message<tstr>   message<T> = { value: T } *)
     <<TypeRule("root", None, <<T1(TypenameG("message", <<T1(Typename("tstr"))>>))>>), MessageRule>>,
     (* r = [* int] / { ? a: int } *)
     Root(<<T1(ArrayT(<<<<ValueMemberKey(Some(ZeroOrMore), None, Ty("int"))>>>>)),
            T1(MapT(<<<<OptEntry("a", Ty("int"))>>>>))>>),
     (* r = { a: int / tstr, ? b: bool } *)
     Root(<<T1(MapT(<<<<Entry("a", <<T1(Typename("int")), T1(Typename("tstr"))>>),
                        OptEntry("b", Ty("bool"))>>>>))>>),
     (* r = x / nint   x = uint / bool *)
     <<TypeRule("r", None, <<T1(Typename("x")), T1(Typename("nint"))>>),
       TypeRule("x", None, <<T1(Typename("uint")), T1(Typename("bool"))>>)>>,
     (* r = [a: int // b: tstr] *)
     Root(<<T1(ArrayT(<<<<Entry("a", Ty("int"))>>, <<Entry("b", Ty("tstr"))>>>>))>>),
     (* r = number / float *)
     Root(<<T1(Typename("number")), T1(Typename("float"))>>) >>

Values ==
  << Null, Bool(TRUE), Integer(-1), Integer(0), Integer(1), Float(15), Text("x"),
     Array(<<Integer(1)>>), Array(<<Text("x"), Integer(1)>>),
     Map(<<>>), Map(<<KV(Text("a"), Integer(1))>>), Map(<<KV(Text("a"), Text("x"))>>),
     Map(<<KV(Text("a"), Integer(6)), KV(Text("b"), Text("x"))>>),
     Map(<<KV(Text("value"), Integer(1))>>), Map(<<KV(Text("value"), Text("x"))>>) >>

(* The types, groups and identifiers of a program that a caller may visit. *)
TypeArgs(cddl) ==
  LET rs == SelectSeq(cddl, LAMBDA r : r.r = "Type") IN [i \in 1..Len(rs) |-> rs[i].value]

RECURSIVE GroupsOfType(_)
GroupsOfType(t) ==
  IF Len(t) = 0 THEN <<>>
  ELSE (IF t[1].type2.t2 \in {"Map", "Array"} THEN <<t[1].type2.group>> ELSE <<>>)
       \o GroupsOfType(Tail(t))

RECURSIVE GroupsOfTypes(_)
GroupsOfTypes(ts) == IF Len(ts) = 0 THEN <<>> ELSE GroupsOfType(ts[1]) \o GroupsOfTypes(Tail(ts))

GroupArgs(cddl) == GroupsOfTypes(TypeArgs(cddl))

PreludeIdents == <<"int", "integer", "number", "uint", "nint", "float", "float64", "tstr", "any">>
IdentArgs(cddl) == PreludeIdents \o [i \in 1..Len(cddl) |-> cddl[i].name]

(***************************************************************************)
(* The state machine: a validator is constructed over a program and a      *)
(* value, and its caller runs validate or visits types, groups and         *)
(* identifiers of the program on it.                                       *)
(***************************************************************************)
VARIABLES jv, pre, op, result, json_result, steps
vars == <<jv, pre, op, result, json_result, steps, overflow_checks>>

(* Operations a caller performs on one validator. *)
MaxOps == 2

(***************************************************************************)
(* The controllers v of the `uint .size v` / `tstr .size v` controls of a  *)
(* program: the exponents 256i128.pow (cbor.rs 1397) can be called with.   *)
(* The overflow-checks setting of the build is observable only when one of *)
(* them overflows; it is chosen for the programs with such a control and   *)
(* left at one value for the others, whose runs do not depend on it.       *)
(***************************************************************************)
RECURSIVE SizeControllers(_, _)
SizeControllers(kind, x) ==
  CASE kind = "cddl" ->
         UNION {IF x[i].r = "Type" THEN SizeControllers("type", x[i].value)
                ELSE SizeControllers("entry", x[i].entry) : i \in 1..Len(x)}
    [] kind = "type" -> UNION {SizeControllers("type1", x[i]) : i \in 1..Len(x)}
    [] kind = "type1" ->
         SizeControllers("type2", x.type2) \cup
         (IF IsNone(x.operator) THEN {}
          ELSE SizeControllers("type2", Unwrap(x.operator).type2) \cup
               (IF Unwrap(x.operator).ctrl = ".size" /\ Unwrap(x.operator).type2.t2 = "UintValue"
                THEN {Unwrap(x.operator).type2.value} ELSE {}))
    [] kind = "type2" ->
         (CASE x.t2 \in {"Map", "Array", "ChoiceFromInlineGroup"} -> SizeControllers("group", x.group)
            [] x.t2 = "ParenthesizedType" -> SizeControllers("type", x.pt)
            [] x.t2 = "Typename" /\ IsSome(x.generic_args) ->
                 SizeControllers("type", Unwrap(x.generic_args))
            [] OTHER -> {})
    [] kind = "group" ->
         UNION {UNION {SizeControllers("entry", x[i][j]) : j \in 1..Len(x[i])} : i \in 1..Len(x)}
    [] OTHER ->
         (CASE x.ge = "ValueMemberKey" ->
                 SizeControllers("type", x.entry_type) \cup
                 (IF IsSome(x.member_key) /\ Unwrap(x.member_key).mk = "Type1"
                  THEN SizeControllers("type1", Unwrap(x.member_key).t1) ELSE {})
            [] x.ge = "InlineGroup" -> SizeControllers("group", x.group)
            [] OTHER -> {})
Builds(cddl) ==
  IF \E v \in SizeControllers("cddl", cddl) : PowOverflows(v) THEN BOOLEAN ELSE {FALSE}

Init ==
  /\ \E p \in 1..Len(Programs), v \in 1..Len(Values) :
       jv = New(Programs[p], Values[v]) /\ overflow_checks \in Builds(Programs[p])
  /\ pre = jv
  /\ op = [f |-> "new", a |-> <<>>]
  /\ result = None
  /\ json_result = None
  /\ steps = 0

(* The process is alive: no call has exhausted the stack. *)
Alive == ~(Raised(jv) /\ Unwrap(jv.ret).kind \in {"StackOverflow", "Panic"})
Entered == [jv EXCEPT !.ret = None]
CanCall == steps < MaxOps /\ Alive

(* A validate that runs on what a previous run on the same inputs left. *)
ValidateAfterPreviousRun ==
  /\ CanCall
  /\ pre' = Entered
  /\ jv' = validate_visit([validate_visit(Entered) EXCEPT !.ret = None])
  /\ result' = Some(validate_result(jv'))
  /\ op' = [f |-> "validate", a |-> <<>>]
  /\ steps' = steps + 1
  /\ UNCHANGED <<json_result, overflow_checks>>

Validate ==
  /\ CanCall
  /\ pre' = Entered
  /\ jv' = validate_visit(Entered)
  /\ result' = Some(validate_result(jv'))
  /\ op' = [f |-> "validate", a |-> <<>>]
  /\ steps' = steps + 1
  /\ UNCHANGED <<json_result, overflow_checks>>

ValidateJson ==
  /\ CanCall
  /\ IsNone(json_result)
  /\ IsJson(jv.cbor)
  /\ json_result' = Some(validate_json(jv.cddl, jv.cbor))
  /\ steps' = steps + 1
  /\ UNCHANGED <<jv, pre, op, result, overflow_checks>>

CallVisitType ==
  /\ CanCall
  /\ \E i \in 1..Len(TypeArgs(jv.cddl)) :
       /\ jv' = visit_type(Entered, TypeArgs(jv.cddl)[i])
       /\ op' = [f |-> "visit_type", a |-> TypeArgs(jv.cddl)[i]]
  /\ pre' = Entered
  /\ steps' = steps + 1
  /\ UNCHANGED <<result, json_result, overflow_checks>>

CallVisitGroup ==
  /\ CanCall
  /\ \E i \in 1..Len(GroupArgs(jv.cddl)) :
       /\ jv' = visit_group(Entered, GroupArgs(jv.cddl)[i])
       /\ op' = [f |-> "visit_group", a |-> GroupArgs(jv.cddl)[i]]
  /\ pre' = Entered
  /\ steps' = steps + 1
  /\ UNCHANGED <<result, json_result, overflow_checks>>

CallVisitIdentifier ==
  /\ CanCall
  /\ \E i \in 1..Len(IdentArgs(jv.cddl)) :
       /\ jv' = visit_identifier(Entered, IdentArgs(jv.cddl)[i])
       /\ op' = [f |-> "visit_identifier", a |-> IdentArgs(jv.cddl)[i]]
  /\ pre' = Entered
  /\ steps' = steps + 1
  /\ UNCHANGED <<result, json_result, overflow_checks>>

Next == Validate \/ ValidateJson \/ CallVisitType \/ CallVisitGroup \/ CallVisitIdentifier

Spec == Init /\ [][Next]_vars

(***************************************************************************)
(* Choice scopes.  The alternatives of a scope (the type choices of a      *)
(* type, the group choices of a group) are visited by f one after the      *)
(* other from the validator s; nothing is rolled back between them.        *)
(***************************************************************************)
(* The validator after alternatives 1..i. *)
RECURSIVE AfterAlternative(_, _, _, _)
AfterAlternative(f, s, xs, i) ==
  IF i = 0 THEN s ELSE Call(f, AfterAlternative(f, s, xs, i - 1), <<xs[i]>>)

(* Alternative i recorded no error. *)
RecordsNoError(f, s, xs, i) ==
  Len(AfterAlternative(f, s, xs, i).errors) = Len(AfterAlternative(f, s, xs, i - 1).errors)

(* The first alternative from i on that returns an error (-1) or records   *)
(* no error (its index), 0 if every alternative records errors.            *)
RECURSIVE FirstSuccess(_, _, _, _)
FirstSuccess(f, s, xs, i) ==
  IF i > Len(xs) THEN 0
  ELSE IF Raised(AfterAlternative(f, s, xs, i)) THEN -1
  ELSE IF RecordsNoError(f, s, xs, i) THEN i
  ELSE FirstSuccess(f, s, xs, i + 1)

(* The errors alternative i recorded. *)
ErrorsOf(f, s, xs, i) ==
  SubSeq(AfterAlternative(f, s, xs, i).errors,
         Len(AfterAlternative(f, s, xs, i - 1).errors) + 1,
         Len(AfterAlternative(f, s, xs, i).errors))

(* The errors of alternatives 1..i, in declaration order. *)
RECURSIVE ErrorsUpTo(_, _, _, _)
ErrorsUpTo(f, s, xs, i) ==
  IF i = 0 THEN <<>> ELSE ErrorsUpTo(f, s, xs, i - 1) \o ErrorsOf(f, s, xs, i)

(* The validator as visit_type and visit_group enter their loop. *)
TypeScope == IF Len(op.a) > 1 THEN [pre EXCEPT !.is_multi_type_choice = TRUE] ELSE pre
GroupScope ==
  [pre EXCEPT !.is_multi_group_choice = IF Len(op.a) > 1 THEN TRUE ELSE @,
              !.is_ctrl_map_equality = FALSE]
(* visit_group reached its loop: the map-size check of .eq / .ne passed.   *)
InGroupLoop == op.f = "visit_group" /\ ~Raised(jv) /\ IsNone(MapEqualityError(pre, op.a))
FirstTypeChoice == FirstSuccess("visit_type_choice", TypeScope, op.a, 1)
FirstGroupChoice == FirstSuccess("visit_group_choice", GroupScope, op.a, 1)

(* C1: visit_type of a type with k type choices leaves no net errors iff   *)
(* some type choice, visited in declaration order, records no error; at    *)
(* the first such choice the visit stops (the validator is the one that    *)
(* choice left, no later choice has touched it) and the error list is the  *)
(* list visit_type was entered with.                                       *)
C1_VisitTypeChoices ==
  (op.f = "visit_type" /\ ~Raised(jv)) =>
    /\ (Len(jv.errors) = Len(pre.errors)) <=> (FirstTypeChoice > 0)
    /\ FirstTypeChoice > 0 =>
         jv = [AfterAlternative("visit_type_choice", TypeScope, op.a, FirstTypeChoice)
                 EXCEPT !.errors = pre.errors]

(* C1 witness: visit_type entered with errors in the list, its first type  *)
(* choice failed, its second succeeded and a third was left unvisited.     *)
C1_Witness ==
  /\ op.f = "visit_type" /\ ~Raised(jv)
  /\ Len(pre.errors) > 0
  /\ Len(op.a) > 2
  /\ FirstTypeChoice = 2
  /\ jv.errors = pre.errors

(* C2: visit_group tries the group choices in declaration order; at the    *)
(* first one that adds no error the error list is back to the list at      *)
(* entry and no later group choice is visited; the group leaves no net     *)
(* errors iff some group choice adds none.                                 *)
C2_VisitGroupChoices ==
  InGroupLoop =>
    /\ (Len(jv.errors) = Len(pre.errors)) <=> (FirstGroupChoice > 0)
    /\ FirstGroupChoice > 0 =>
         jv = [AfterAlternative("visit_group_choice", GroupScope, op.a, FirstGroupChoice)
                 EXCEPT !.errors = pre.errors]

(* C2 witness: visit_group entered with errors in the list, the first      *)
(* group choice failed, the second matched, a third was left unvisited.    *)
C2_Witness ==
  /\ InGroupLoop
  /\ Len(pre.errors) > 0
  /\ Len(op.a) > 2
  /\ FirstGroupChoice = 2
  /\ jv.errors = pre.errors

(* C3: when every alternative of a type-choice or group-choice scope       *)
(* fails, the error list is the list at entry followed by the errors of    *)
(* each alternative, in the declaration order of the alternatives.         *)
C3_AllAlternativesFail ==
  /\ (op.f = "visit_type" /\ ~Raised(jv) /\ FirstTypeChoice = 0) =>
       jv.errors = pre.errors \o ErrorsUpTo("visit_type_choice", TypeScope, op.a, Len(op.a))
  /\ (InGroupLoop /\ FirstGroupChoice = 0) =>
       jv.errors = pre.errors \o ErrorsUpTo("visit_group_choice", GroupScope, op.a, Len(op.a))

(* C3 witness: a group of three group choices that all failed, entered     *)
(* with errors in the list; each choice's errors are in the final list.    *)
C3_Witness ==
  /\ InGroupLoop
  /\ Len(op.a) > 2
  /\ FirstGroupChoice = 0
  /\ Len(pre.errors) > 0
  /\ \A i \in 1..Len(op.a) : Len(ErrorsOf("visit_group_choice", GroupScope, op.a, i)) > 0
  /\ Len(jv.errors) >= Len(pre.errors) + Len(op.a)

(***************************************************************************)
(* Cuts                                                                    *)
(***************************************************************************)
(* Some group choice of the map group g has a member key marked with a cut *)
(* that is present in the map v, and the key's value fails the entry type. *)
CutEntryFails(cddl, g, v) ==
  \E i \in 1..Len(g) : \E j \in 1..Len(g[i]) :
    /\ g[i][j].ge = "ValueMemberKey"
    /\ IsSome(g[i][j].member_key)
    /\ Unwrap(g[i][j].member_key).mk = "Type1"
    /\ Unwrap(g[i][j].member_key).is_cut
    /\ Unwrap(g[i][j].member_key).t1.type2.t2 = "TextValue"
    /\ LET val == MapGet(v.v, Text(Unwrap(g[i][j].member_key).t1.type2.value)) IN
       /\ IsSome(val)
       /\ Len(visit_type(New(cddl, Unwrap(val)), g[i][j].entry_type).errors) > 0

(* The root rule is one map type of several group choices, validated       *)
(* against a map in which a cut member key's value fails its type.         *)
CutCase ==
  /\ op.f = "validate"
  /\ IsSome(RootRule(jv.cddl))
  /\ Len(Unwrap(RootRule(jv.cddl)).value) = 1
  /\ Unwrap(RootRule(jv.cddl)).value[1].type2.t2 = "Map"
  /\ IsNone(Unwrap(RootRule(jv.cddl)).value[1].operator)
  /\ Len(Unwrap(RootRule(jv.cddl)).value[1].type2.group) > 1
  /\ jv.cbor.k = "Map"
  /\ CutEntryFails(jv.cddl, Unwrap(RootRule(jv.cddl)).value[1].type2.group, jv.cbor)

(* C4: in a map group of several group choices, when a member key marked   *)
(* with a cut is present in the map and its value fails the entry type in  *)
(* one group choice, the error stays in the final error list and           *)
(* validation fails, even though a later group choice matches the map.     *)
C4_CutBlocksRollback ==
  CutCase => (Len(jv.errors) > 0 /\ Unwrap(result).kind = "Validation")

(***************************************************************************)
(* validate                                                                *)
(***************************************************************************)
(* validate has returned (the call stack was not exhausted). *)
Validated == op.f = "validate" /\ Unwrap(result).kind # "StackOverflow"

(* C5 as stated: validate returns Ok iff the accumulated error list is     *)
(* empty after the root rule's visit, and otherwise Validation with the    *)
(* non-empty list of every accumulated error, in order.                    *)
C5_ResultIsAccumulatedErrors ==
  Validated =>
    /\ (Unwrap(result).kind = "Ok") <=> (Len(jv.errors) = 0)
    /\ Unwrap(result).kind # "Ok" =>
         (Len(jv.errors) > 0 /\ Unwrap(result) = ResultValidation(jv.errors))

(* C5: validate returns Ok iff the root rule's visit returned Ok and the   *)
(* accumulated error list is empty; when the visit returned Err(e) it      *)
(* returns Validation of e alone, whatever was accumulated; otherwise it   *)
(* returns Validation of every accumulated error, in order.                *)
C5_ValidateResult ==
  Validated =>
    /\ (Unwrap(result).kind = "Ok") <=> (~Raised(jv) /\ Len(jv.errors) = 0)
    /\ Raised(jv) => Unwrap(result) = ResultValidation(<<Unwrap(jv.ret).e>>)
    /\ (~Raised(jv) /\ Len(jv.errors) > 0) => Unwrap(result) = ResultValidation(jv.errors)

(* C5 witness: the root rule's visit returned Err after an error had been  *)
(* accumulated; validate returned the Err's error alone.                   *)
C5_Witness ==
  /\ Validated
  /\ Raised(jv)
  /\ Len(jv.errors) > Len(pre.errors)
  /\ Unwrap(result) = ResultValidation(<<Unwrap(jv.ret).e>>)

(* The first type rule without generic parameters, by declaration order. *)
FirstPlainTypeRule(cddl) ==
  SelectSeq(cddl, LAMBDA r : r.r = "Type" /\ IsNone(r.generic_params))[1]
HasPlainTypeRule(cddl) == \E i \in 1..Len(cddl) : cddl[i].r = "Type" /\ IsNone(cddl[i].generic_params)

(* The values of the type rules named ident, by declaration order. *)
TypeRuleValues(cddl, ident) ==
  LET rs == SelectSeq(cddl, LAMBDA r : r.r = "Type" /\ r.name = ident)
  IN [i \in 1..Len(rs) |-> rs[i].value]
RootAlternates == TypeRuleValues(jv.cddl, FirstPlainTypeRule(jv.cddl).name)
FirstRootAlternate == FirstSuccess("visit_type", pre, RootAlternates, 1)

(* C6 as stated: the result of validate is the result of validating the    *)
(* value against the value of the first type rule without generic          *)
(* parameters.                                                             *)
C6_RootIsFirstPlainTypeRule ==
  (Validated /\ HasPlainTypeRule(jv.cddl)) =>
    Unwrap(result) = validate_result(visit_type(pre, FirstPlainTypeRule(jv.cddl).value))

(* C6: the result of validate is the result of validating the value        *)
(* against the type rules that bear the name of the first type rule        *)
(* without generic parameters, tried as alternatives in declaration order: *)
(* the first that records no error decides (no net error), and when all    *)
(* fail the errors of all of them are reported.  Generic type rules and    *)
(* group rules before that rule are skipped.                               *)
C6_RootAlternates ==
  (Validated /\ HasPlainTypeRule(jv.cddl)) =>
    /\ FirstRootAlternate > 0 =>
         Unwrap(result) =
           validate_result([AfterAlternative("visit_type", pre, RootAlternates, FirstRootAlternate)
                              EXCEPT !.errors = pre.errors])
    /\ FirstRootAlternate = 0 =>
         Unwrap(result) =
           validate_result(AfterAlternative("visit_type", pre, RootAlternates, Len(RootAlternates)))
    /\ FirstRootAlternate = -1 => (Raised(jv) /\ Len(Unwrap(result).errors) = 1)

(* C6 witness: a generic type rule and a group rule precede the root rule, *)
(* the value fails the root rule's own value and the value of a later type *)
(* rule of the same name accepts it.                                       *)
C6_Witness ==
  /\ Validated /\ HasPlainTypeRule(jv.cddl)
  /\ jv.cddl[1].r = "Type" /\ IsSome(jv.cddl[1].generic_params)
  /\ jv.cddl[2].r = "Group"
  /\ FirstRootAlternate = 2
  /\ pre.errors = <<>>
  /\ Unwrap(result) = ResultOk

HasTypeRule(cddl) == \E i \in 1..Len(cddl) : cddl[i].r = "Type"

(* C7: a program with no type rule is accepted against every value:        *)
(* validate, on a validator that has recorded no error, returns Ok and     *)
(* leaves the error list empty, and validate_json returns Ok.              *)
C7_NoTypeRuleAccepts ==
  ~HasTypeRule(jv.cddl) =>
    /\ (op.f = "validate" /\ pre.errors = <<>>) =>
         (Unwrap(result) = ResultOk /\ jv.errors = <<>>)
    /\ IsSome(json_result) => Unwrap(json_result) = JOk

(* C7 witness: a program of one group rule, validated by both validators. *)
C7_Witness ==
  /\ ~HasTypeRule(jv.cddl)
  /\ Len(jv.cddl) > 0
  /\ op.f = "validate" /\ pre.errors = <<>>
  /\ result = Some(ResultOk)
  /\ json_result = Some(JOk)

(* C8: validation terminates for every program and every finite value:     *)
(* no validate and no validate_json exhausts the call stack, also when     *)
(* rules reference themselves or each other in a cycle.                    *)
C8_Terminates ==
  /\ IsSome(result) => Unwrap(result).kind # "StackOverflow"
  /\ IsSome(json_result) => Unwrap(json_result) # JStackOverflow

(***************************************************************************)
(* Generics                                                                *)
(***************************************************************************)
(* x (a "type", "type1", "type2", "group" or "entry") with every type      *)
(* choice that is the identifier param replaced by the Type1 arg.          *)
RECURSIVE Substitute(_, _, _, _)
Substitute(kind, x, param, arg) ==
  CASE kind = "type" ->
         [i \in 1..Len(x) |->
            IF x[i].type2.t2 = "Typename" /\ IsNone(x[i].operator) /\ x[i].type2.ident = param
              THEN arg
              ELSE Substitute("type1", x[i], param, arg)]
    [] kind = "type1" -> [x EXCEPT !.type2 = Substitute("type2", @, param, arg)]
    [] kind = "type2" ->
         (CASE x.t2 \in {"Map", "Array"} -> [x EXCEPT !.group = Substitute("group", @, param, arg)]
            [] x.t2 = "ParenthesizedType" -> [x EXCEPT !.pt = Substitute("type", @, param, arg)]
            [] OTHER -> x)
    [] kind = "group" ->
         [i \in 1..Len(x) |-> [j \in 1..Len(x[i]) |-> Substitute("entry", x[i][j], param, arg)]]
    [] OTHER ->
         (CASE x.ge = "ValueMemberKey" -> [x EXCEPT !.entry_type = Substitute("type", @, param, arg)]
            [] x.ge = "InlineGroup" -> [x EXCEPT !.group = Substitute("group", @, param, arg)]
            [] OTHER -> x)

(* The body of a generic rule with params[i..] replaced by args[i..]. *)
RECURSIVE Instantiate(_, _, _, _)
Instantiate(t, params, args, i) ==
  IF i > Len(params) THEN t
  ELSE Instantiate(Substitute("type", t, params[i], args[i]), params, args, i + 1)

(* Type choice t1 is a use R<A1..An> of the one type rule named R, which   *)
(* has n generic parameters.                                               *)
IsGenericUse(cddl, t1) ==
  /\ t1.type2.t2 = "Typename" /\ IsNone(t1.operator)
  /\ IsSome(t1.type2.generic_args)
  /\ Len(RulesNamed(cddl, t1.type2.ident)) = 1
  /\ RulesNamed(cddl, t1.type2.ident)[1].r = "Type"
  /\ IsSome(RulesNamed(cddl, t1.type2.ident)[1].generic_params)
  /\ Len(Unwrap(RulesNamed(cddl, t1.type2.ident)[1].generic_params))
       = Len(Unwrap(t1.type2.generic_args))

(* R's body with the arguments of the use site t1 in place of R's parameters. *)
InstanceOf(cddl, t1) ==
  Instantiate(RulesNamed(cddl, t1.type2.ident)[1].value,
              Unwrap(RulesNamed(cddl, t1.type2.ident)[1].generic_params),
              Unwrap(t1.type2.generic_args), 1)

(* The value v matches the type t of the program cddl. *)
Accepts(cddl, t, v) ==
  LET r == visit_type(New(cddl, v), t) IN ~Raised(r) /\ Len(r.errors) = 0

(* C9: at every use site R<A1..An> of a generic rule R, R's parameters are *)
(* checked against the arguments of that use site, also when R was         *)
(* instantiated earlier with other arguments: a root rule whose type       *)
(* choices are uses of generic rules accepts a value iff the value matches *)
(* R's body with that use site's arguments, for one of the use sites.      *)
C9_GenericSubstitution ==
  ( /\ op.f = "validate"
    /\ pre = New(jv.cddl, jv.cbor)
    /\ HasPlainTypeRule(jv.cddl)
    /\ Len(RootAlternates) = 1
    /\ \A c \in 1..Len(RootAlternates[1]) : IsGenericUse(jv.cddl, RootAlternates[1][c]) ) =>
  ( (Unwrap(result) = ResultOk) <=>
      \E c \in 1..Len(RootAlternates[1]) :
        Accepts(jv.cddl, InstanceOf(jv.cddl, RootAlternates[1][c]), jv.cbor) )

(***************************************************************************)
(* Prelude identifiers                                                     *)
(***************************************************************************)
(* visit_identifier recorded nothing / exactly one "expected type" error. *)
NoErrorRecorded == ~Raised(jv) /\ jv.errors = pre.errors
ExpectedTypeRecorded ==
  /\ ~Raised(jv)
  /\ Len(jv.errors) = Len(pre.errors) + 1
  /\ SubSeq(jv.errors, 1, Len(pre.errors)) = pre.errors
  /\ jv.errors[Len(jv.errors)].reason[1] = "expected type"

(* C10: visit_identifier on an Integer i with a prelude identifier that no *)
(* rule of the program bears: int, integer and number accept every i,      *)
(* uint accepts iff i >= 0, nint accepts iff i < 0, the float identifiers  *)
(* reject i; accepting records no error, rejecting records exactly an      *)
(* "expected type" error.                                                  *)
C10_PreludeOnInteger ==
  ( /\ op.f = "visit_identifier"
    /\ jv.cbor.k = "Integer"
    /\ Len(RulesNamed(jv.cddl, op.a)) = 0
    /\ op.a \in {"int", "integer", "number", "uint", "nint", "float", "float64"} ) =>
  IF \/ op.a \in {"int", "integer", "number"}
     \/ op.a = "uint" /\ jv.cbor.v >= 0
     \/ op.a = "nint" /\ jv.cbor.v < 0
  THEN NoErrorRecorded
  ELSE ExpectedTypeRecorded

(***************************************************************************)
(* Maps: programs of map types with occurrences, pattern keys and `any`,   *)
(* and the values they are validated against.                              *)
(***************************************************************************)
OccEntry(occur, key, t) == ValueMemberKey(Some(occur), Some(Bareword(key)), t)
PatternEntry(occur, key_type, t) ==
  ValueMemberKey(Some(occur), Some(MkType1(T1(Typename(key_type)), FALSE)), t)
MapRoot(gc) == Root(<<T1(MapT(<<gc>>))>>)
(* r = { * tstr => any } ctrl { group } *)
MapCtl(ctrl, group) ==
  Root(<<CtlOp(MapT(<<<<PatternEntry(ZeroOrMore, "tstr", Ty("any"))>>>>), ctrl, MapT(group))>>)

MapPrograms ==
  << (* r = # *)
     Root(<<T1(Type2Any)>>),
     (* r = any *)
     Root(Ty("any")),
     (* r = { a: int } *)
     MapRoot(<<Entry("a", Ty("int"))>>),
     (* r = { ? a: int } *)
     MapRoot(<<OccEntry(Optional, "a", Ty("int"))>>),
     (* r = { * a: int } *)
     MapRoot(<<OccEntry(ZeroOrMore, "a", Ty("int"))>>),
     (* r = { + a: int } *)
     MapRoot(<<OccEntry(OneOrMore, "a", Ty("int"))>>),
     (* r = { ? "a" => int } *)
     MapRoot(<<ValueMemberKey(Some(Optional), Some(MkType1(T1(TextValue("a")), FALSE)), Ty("int"))>>),
     (* r = { * tstr => any } *)
     MapRoot(<<PatternEntry(ZeroOrMore, "tstr", Ty("any"))>>),
     (* r = { * int => any } *)
     MapRoot(<<PatternEntry(ZeroOrMore, "int", Ty("any"))>>),
     (* r = { + tstr => any } *)
     MapRoot(<<PatternEntry(OneOrMore, "tstr", Ty("any"))>>),
     (* r = { + uint => any } *)
     MapRoot(<<PatternEntry(OneOrMore, "uint", Ty("any"))>>),
     (* r = { + "a" => int } *)
     MapRoot(<<ValueMemberKey(Some(OneOrMore), Some(MkType1(T1(TextValue("a")), FALSE)), Ty("int"))>>),
     (* r = { ? a: int, b: tstr } *)
     MapRoot(<<OccEntry(Optional, "a", Ty("int")), Entry("b", Ty("tstr"))>>),
     (* r = { b: tstr, ? a: int } *)
     MapRoot(<<Entry("b", Ty("tstr")), OccEntry(Optional, "a", Ty("int"))>>),
     (* r = { * tstr => any, a: int } *)
     MapRoot(<<PatternEntry(ZeroOrMore, "tstr", Ty("any")), Entry("a", Ty("int"))>>),
     (* r = { a: int, * tstr => any } *)
     MapRoot(<<Entry("a", Ty("int")), PatternEntry(ZeroOrMore, "tstr", Ty("any"))>>),
     (* r = { * tstr => any } .eq { a: int } *)
     MapCtl(".eq", <<<<Entry("a", Ty("int"))>>>>),
     (* r = { * tstr => any } .eq { a: int // a: int, b: tstr } *)
     MapCtl(".eq", <<<<Entry("a", Ty("int"))>>, <<Entry("a", Ty("int")), Entry("b", Ty("tstr"))>>>>),
     (* r = { * tstr => any } .ne { a: int } *)
     MapCtl(".ne", <<<<Entry("a", Ty("int"))>>>>),
     (* r = { * tstr => any } .ne { a: int // a: int, b: tstr } *)
     MapCtl(".ne", <<<<Entry("a", Ty("int"))>>, <<Entry("a", Ty("int")), Entry("b", Ty("tstr"))>>>>) >>

MapValues ==
  << Null, Bool(FALSE), Integer(-1), Integer(1), Float(15), Text("x"), Bytes("b"),
     Array(<<Integer(1)>>),
     Map(<<>>), Map(<<KV(Text("a"), Integer(1))>>), Map(<<KV(Text("a"), Text("x"))>>),
     Map(<<KV(Text("b"), Text("x"))>>),
     Map(<<KV(Text("a"), Integer(1)), KV(Text("b"), Text("x"))>>),
     Map(<<KV(Integer(1), Text("test"))>>),
     Map(<<KV(Integer(1), Text("test")), KV(Text("a"), Integer(1))>>) >>

InitMap ==
  /\ \E p \in 1..Len(MapPrograms), v \in 1..Len(MapValues) :
       jv = New(MapPrograms[p], MapValues[v]) /\ overflow_checks \in Builds(MapPrograms[p])
  /\ pre = jv
  /\ op = [f |-> "new", a |-> <<>>]
  /\ result = None
  /\ json_result = None
  /\ steps = 0

SpecMap == InitMap /\ [][Next]_vars

(* C11: validating a value of any kind (null, bool, integer, float, text,  *)
(* bytes, array, map) against `any` records no error, whether `any` is the *)
(* Type2 Any node or the prelude identifier any (no rule bears the name).  *)
C11_AnyAccepts ==
  /\ (op.f = "visit_type" /\ op.a = <<T1(Type2Any)>>) => NoErrorRecorded
  /\ (op.f = "visit_identifier" /\ op.a = "any" /\ Len(RulesNamed(jv.cddl, "any")) = 0) =>
       NoErrorRecorded

(***************************************************************************)
(* Occurrences of the JSON validator: validate_array_occurrence applied to *)
(* arrays of every length up to MaxLen + 1 under every occurrence with     *)
(* bounds up to MaxLen.                                                    *)
(***************************************************************************)
MaxLen == 3

OptionalBounds == {None} \cup {Some(n) : n \in 0..MaxLen}
OccurArgs ==
  {Optional, ZeroOrMore, OneOrMore} \cup {Exact(l, u) : l \in OptionalBounds, u \in OptionalBounds}

InitOccurrence ==
  /\ \E k \in 0..(MaxLen + 1) : jv = New(<<>>, Array([i \in 1..k |-> Null]))
  /\ pre = jv
  /\ op = [f |-> "new", a |-> <<>>]
  /\ result = None
  /\ json_result = None
  /\ steps = 0
  /\ overflow_checks \in Builds(<<>>)

CallValidateArrayOccurrence ==
  /\ steps < MaxOps
  /\ \E occur \in OccurArgs :
       /\ json_result' = Some(validate_array_occurrence(occur, "g", jv.cbor.v))
       /\ op' = [f |-> "validate_array_occurrence", a |-> occur]
  /\ steps' = steps + 1
  /\ UNCHANGED <<jv, pre, result, overflow_checks>>

NextOccurrence == CallValidateArrayOccurrence

SpecOccurrence == InitOccurrence /\ [][NextOccurrence]_vars

OccurrenceAccepted == Unwrap(json_result) = JOk
OccurrenceRejected == ~Unwrap(json_result).ok /\ Unwrap(json_result).e.kind = "Occurrence"

(* C12: validate_array_occurrence on an array of length k accepts under    *)
(* n*m iff n <= k <= m, a missing bound being unbounded on its side; under *)
(* + iff k >= 1; under ? and * it accepts k = 0.  It rejects with an       *)
(* Occurrence error and accepts with Ok.                                   *)
C12_OccurrenceBounds ==
  op.f = "validate_array_occurrence" =>
    /\ OccurrenceAccepted \/ OccurrenceRejected
    /\ op.a.o = "Exact" =>
         (OccurrenceAccepted <=>
            /\ IsSome(op.a.lower) => Unwrap(op.a.lower) <= Len(jv.cbor.v)
            /\ IsSome(op.a.upper) => Len(jv.cbor.v) <= Unwrap(op.a.upper))
    /\ op.a.o = "OneOrMore" => (OccurrenceAccepted <=> Len(jv.cbor.v) >= 1)
    /\ (op.a.o \in {"Optional", "ZeroOrMore"} /\ Len(jv.cbor.v) = 0) => OccurrenceAccepted

(* C12 witness: an array longer than the upper bound of n*m was rejected   *)
(* with an Occurrence error.                                               *)
C12_Witness ==
  /\ op.f = "validate_array_occurrence"
  /\ op.a.o = "Exact" /\ IsSome(op.a.lower) /\ IsSome(op.a.upper)
  /\ Unwrap(op.a.lower) < Unwrap(op.a.upper)
  /\ Len(jv.cbor.v) = Unwrap(op.a.upper) + 1
  /\ OccurrenceRejected

(***************************************************************************)
(* Entries of a map group with a literal member key (cbor.rs 1291-1347,    *)
(* 1568-1593).  The entry's call state is the state visit_group_choice     *)
(* hands to visit_group_entry: the states of the entries before it, folded *)
(* from the state visit_group gave the group choice.                       *)
(***************************************************************************)
RECURSIVE BeforeEntry(_, _, _)
BeforeEntry(s, gc, i) ==
  IF i = 1 THEN s
  ELSE LET b == BeforeEntry(s, gc, i - 1) IN
       IF Raised(b) THEN b
       ELSE visit_group_entry([b EXCEPT !.group_entry_idx = Some(i - 2)], gc[i - 1])
EntryCall(i) == [BeforeEntry(GroupScope, op.a[1], i) EXCEPT !.group_entry_idx = Some(i - 1)]
AfterEntry(i) == visit_group_entry(EntryCall(i), op.a[1][i])
Reasons(errs) == [n \in 1..Len(errs) |-> errs[n].reason]
SingleChoiceOnMap ==
  /\ op.f = "visit_group" /\ Len(op.a) = 1
  /\ pre.cbor.k = "Map" /\ ~Raised(pre) /\ ~Raised(jv)
HasLiteralKey(ge) ==
  /\ ge.ge = "ValueMemberKey" /\ IsSome(ge.member_key)
  /\ \/ Unwrap(ge.member_key).mk = "Bareword"
     \/ /\ Unwrap(ge.member_key).mk = "Type1"
        /\ Unwrap(ge.member_key).t1.type2.t2 = "TextValue"
        /\ IsNone(Unwrap(ge.member_key).t1.operator)
LiteralKey(ge) ==
  IF Unwrap(ge.member_key).mk = "Bareword" THEN Unwrap(ge.member_key).ident
  ELSE Unwrap(ge.member_key).t1.type2.value
LiteralEntries == {i \in 1..Len(op.a[1]) : HasLiteralKey(op.a[1][i]) /\ ~Raised(EntryCall(i))}
KeyValue(i) == MapGet(pre.cbor.v, Text(LiteralKey(op.a[1][i])))
Skippable(ge) == IsOccur(ge.occur, "Optional") \/ IsOccur(ge.occur, "ZeroOrMore")
NewErrors(i) ==
  SubSeq(AfterEntry(i).errors, Len(EntryCall(i).errors) + 1, Len(AfterEntry(i).errors))
MissingKeyRecorded(i) ==
  /\ Len(NewErrors(i)) = 1
  /\ NewErrors(i)[1].reason[1] \in
       {"object missing key",
        "map cannot be empty, require one oe more entries with key type"}

(* C13: in a map group, an entry with a literal or bareword member key     *)
(* that the map lacks records nothing when its occurrence is ? or *, and   *)
(* records a missing-key error when it has no occurrence or +; when the    *)
(* map has the key, the errors the entry records are those of the entry    *)
(* type checked against the looked-up value.                               *)
C13_LiteralKeyEntry ==
  SingleChoiceOnMap =>
    \A i \in LiteralEntries :
      LET ge == op.a[1][i] IN
      IF IsNone(KeyValue(i))
      THEN IF Skippable(ge) THEN NewErrors(i) = <<>> ELSE MissingKeyRecorded(i)
      ELSE Reasons(NewErrors(i)) =
             Reasons(visit_type(New(pre.cddl, Unwrap(KeyValue(i))), ge.entry_type).errors)

(***************************************************************************)
(* Pattern member keys (cbor.rs 1244-1276), observed through validate on a *)
(* validator that has run nothing before.                                  *)
(***************************************************************************)
FreshValidate == op.f = "validate" /\ pre = New(pre.cddl, pre.cbor)
Accepted == Unwrap(result) = ResultOk
StringIdents == {"tstr", "text"}
IntegerIdents == {"int", "integer", "uint", "nint"}
AllKeys(m, kind) == \A i \in 1..Len(m) : m[i].key.k = kind
PatternProgram(o, K) == MapRoot(<<PatternEntry(o, K, Ty("any"))>>)

(* C14: { * K => any } accepts a map iff all of its keys are text (K a     *)
(* prelude string type) or all of its keys are integers (K a prelude       *)
(* integer type); with + in place of * the empty map is rejected as well.  *)
C14_PatternKeys ==
  \A o \in {ZeroOrMore, OneOrMore}, K \in StringIdents \cup IntegerIdents :
    (FreshValidate /\ pre.cbor.k = "Map" /\ pre.cddl = PatternProgram(o, K)) =>
      (Accepted <=>
         /\ AllKeys(pre.cbor.v, IF K \in StringIdents THEN "Text" ELSE "Integer")
         /\ (o = OneOrMore => Len(pre.cbor.v) > 0))
C14_Witness ==
  /\ FreshValidate /\ Accepted
  /\ pre.cddl = PatternProgram(ZeroOrMore, "int")
  /\ pre.cbor = Map(<<KV(Integer(1), Text("test"))>>)

(***************************************************************************)
(* Declaration order of the entries of a map's group choice (cbor.rs       *)
(* 401-407): the same value validated against the schema with its entries  *)
(* permuted.                                                               *)
(***************************************************************************)
IsSingleChoiceMapProgram(cddl) ==
  /\ Len(cddl) = 1 /\ cddl[1].r = "Type" /\ Len(cddl[1].value) = 1
  /\ cddl[1].value[1].type2.t2 = "Map" /\ IsNone(cddl[1].value[1].operator)
  /\ Len(cddl[1].value[1].type2.group) = 1
EntriesOf(cddl) == cddl[1].value[1].type2.group[1]
EntryOrders(n) == {f \in [1..n -> 1..n] : \A i, j \in 1..n : f[i] = f[j] => i = j}
Permuted(gc, f) == [i \in 1..Len(gc) |-> gc[f[i]]]
ValidateFresh(cddl, cbor) == validate_result(validate_visit(New(cddl, cbor)))

(* C20: permuting the entries of the group choice of a map schema does not *)
(* change whether validate accepts the map.                                *)
C20_EntryOrderIndependent ==
  (FreshValidate /\ pre.cbor.k = "Map" /\ IsSingleChoiceMapProgram(pre.cddl)) =>
    \A f \in EntryOrders(Len(EntriesOf(pre.cddl))) :
      (ValidateFresh(MapRoot(Permuted(EntriesOf(pre.cddl), f)), pre.cbor) = ResultOk) <=> Accepted

(***************************************************************************)
(* .eq / .ne between map types (cbor.rs 327-358, 728-737, 765-774),        *)
(* observed through visit_type on `target ctrl controller`.                *)
(***************************************************************************)
MapEqualityCase(ctrl) ==
  /\ op.f = "visit_type" /\ Len(op.a) = 1 /\ IsSome(op.a[1].operator)
  /\ Unwrap(op.a[1].operator).op = "CtlOp" /\ Unwrap(op.a[1].operator).ctrl = ctrl
  /\ op.a[1].type2.t2 = "Map" /\ Unwrap(op.a[1].operator).type2.t2 = "Map"
  /\ pre.cbor.k = "Map" /\ ~Raised(pre)
ControllerCounts == entry_counts_from_group(pre.cddl, Unwrap(op.a[1].operator).type2.group)
SizeMatches == \E i \in 1..Len(ControllerCounts) : Len(pre.cbor.v) = ControllerCounts[i]
(* One error of the size check and no trace of an entry having been matched. *)
OnlySizeError(msg) ==
  /\ ~Raised(jv)
  /\ Len(jv.errors) = Len(pre.errors) + 1
  /\ SubSeq(jv.errors, 1, Len(pre.errors)) = pre.errors
  /\ jv.errors[Len(jv.errors)].reason[1] = msg
  /\ jv.occurence = pre.occurence /\ jv.object_value = pre.object_value
  /\ jv.advance_to_next_entry = pre.advance_to_next_entry
  /\ jv.cbor_location = pre.cbor_location /\ jv.group_entry_idx = pre.group_entry_idx

(* C18: on a map, .eq records the size error unless the map has as many    *)
(* keys as some group choice of the controller has entries, .ne records    *)
(* it whenever the map has as many keys as some group choice has entries;  *)
(* the size error comes before, and instead of, any entry match.           *)
C18_MapEquality ==
  /\ (MapEqualityCase(".eq") /\ ~SizeMatches) => OnlySizeError("map equality error")
  /\ (MapEqualityCase(".ne") /\ SizeMatches) => OnlySizeError("map inequality error")

(***************************************************************************)
(* Control operators and ranges on scalar values (cbor.rs 495-697,         *)
(* 699-886, 1368-1414).                                                    *)
(***************************************************************************)
Ctl(target, ctrl, controller) == Root(<<CtlOp(target, ctrl, controller)>>)
Range(lower, upper, is_inclusive) == Root(<<RangeOp(lower, upper, is_inclusive)>>)
SizeRange(lower, upper, is_inclusive) ==
  Ctl(Typename("tstr"), ".size", ParenthesizedType(<<RangeOp(lower, upper, is_inclusive)>>))

CtlPrograms ==
  << (* r = uint .and 5 *)
     Ctl(Typename("uint"), ".and", UintValue(5)),
     (* r = tstr .and "x" *)
     Ctl(Typename("tstr"), ".and", TextValue("x")),
     (* r = int .and uint *)
     Ctl(Typename("int"), ".and", Typename("uint")),
     (* r = int .within uint *)
     Ctl(Typename("int"), ".within", Typename("uint")),
     (* r = uint .within int *)
     Ctl(Typename("uint"), ".within", Typename("int")),
     (* r = uint .within 5 *)
     Ctl(Typename("uint"), ".within", UintValue(5)),
     (* r = uint .size 0 *)
     Ctl(Typename("uint"), ".size", UintValue(0)),
     (* r = uint .size 1 *)
     Ctl(Typename("uint"), ".size", UintValue(1)),
     (* r = uint .size 2 *)
     Ctl(Typename("uint"), ".size", UintValue(2)),
     (* r = uint .size 3 *)
     Ctl(Typename("uint"), ".size", UintValue(3)),
     (* r = uint .size 15 *)
     Ctl(Typename("uint"), ".size", UintValue(15)),
     (* r = uint .size 16 *)
     Ctl(Typename("uint"), ".size", UintValue(16)),
     (* r = 1..3 *)
     Range(UintValue(1), UintValue(3), TRUE),
     (* r = 1...3 *)
     Range(UintValue(1), UintValue(3), FALSE),
     (* r = -1..1 *)
     Range(IntValue(-1), UintValue(1), TRUE),
     (* r = -3...-1 *)
     Range(IntValue(-3), IntValue(-1), FALSE),
     (* r = 1.0..3.0 *)
     Range(FloatValue(10), FloatValue(30), TRUE),
     (* r = 1.0...3.0 *)
     Range(FloatValue(10), FloatValue(30), FALSE),
     (* r = 1..3.0 *)
     Range(UintValue(1), FloatValue(30), TRUE),
     (* r = 1.0..3 *)
     Range(FloatValue(10), UintValue(3), TRUE),
     (* r = 1..-1 *)
     Range(UintValue(1), IntValue(-1), TRUE),
     (* r = "a".."c" *)
     Range(TextValue("a"), TextValue("c"), TRUE),
     (* r = tstr .size (1..2) *)
     SizeRange(UintValue(1), UintValue(2), TRUE),
     (* r = tstr .size (0...2) *)
     SizeRange(UintValue(0), UintValue(2), FALSE),
     (* r = { a: uint .size 1 } *)
     MapRoot(<<Entry("a", <<CtlOp(Typename("uint"), ".size", UintValue(1))>>)>>),
     (* r = int .within uint / tstr *)
     Root(<<CtlOp(Typename("int"), ".within", Typename("uint")), T1(Typename("tstr"))>>),
     (* r = { grp // b: tstr }   grp = (a: int) *)
     <<TypeRule("r", None, <<T1(MapT(<<<<TypeGroupname(None, "grp")>>, <<Entry("b", Ty("tstr"))>>>>))>>),
       GroupRule("grp", None, Entry("a", Ty("int")))>> >>

CtlValues ==
  << Null, Bool(TRUE), Bytes("b"), Map(<<>>), Map(<<KV(Text("a"), Integer(1))>>),
     Integer(-2), Integer(-1), Integer(0), Integer(1), Integer(2), Integer(3), Integer(4),
     Integer(5), Integer(255), Integer(256), Integer(65535), Integer(65536),
     Integer(16777215), Integer(16777216),
     Float(5), Float(10), Float(15), Float(30), Float(35),
     Text(""), Text("x"), Text("xy"), Text("xyz") >>

InitCtl ==
  /\ \E p \in 1..Len(CtlPrograms), v \in 1..Len(CtlValues) :
       jv = New(CtlPrograms[p], CtlValues[v]) /\ overflow_checks \in Builds(CtlPrograms[p])
  /\ pre = jv
  /\ op = [f |-> "new", a |-> <<>>]
  /\ result = None
  /\ json_result = None
  /\ steps = 0

SpecCtl == InitCtl /\ [][Next]_vars

(* visit_type on the single type choice `target ctrl controller`. *)
ControlCase(ctrl) ==
  /\ op.f = "visit_type" /\ Len(op.a) = 1 /\ IsSome(op.a[1].operator)
  /\ Unwrap(op.a[1].operator).op = "CtlOp" /\ Unwrap(op.a[1].operator).ctrl = ctrl
  /\ ~Raised(pre)
Target == op.a[1].type2
Controller == Unwrap(op.a[1].operator).type2
(* The errors of the type t2 alone, on the same value, in a new validator. *)
ErrorsAlone(t2) == visit_type(New(pre.cddl, pre.cbor), <<T1(t2)>>).errors
AcceptsAlone(t2) == ErrorsAlone(t2) = <<>>

(* C15: `target .and controller` records no error iff target alone and     *)
(* controller alone record none on the same value; so `uint .and 5`        *)
(* accepts 5.                                                              *)
C15_And ==
  ControlCase(".and") =>
    /\ ~Raised(jv)
    /\ NoErrorRecorded <=> (AcceptsAlone(Target) /\ AcceptsAlone(Controller))

NewErrorsOfCall == SubSeq(jv.errors, Len(pre.errors) + 1, Len(jv.errors))
IsWithinError(e) == e.reason[1] = "expected type .within type"

(* C16: `target .within controller` records no error iff target alone and  *)
(* controller alone record none; when target accepts and controller does   *)
(* not, the one .within error stands for the controller's errors; when     *)
(* target fails, its errors and the controller's are kept and no .within   *)
(* error is added.                                                         *)
C16_Within ==
  ControlCase(".within") =>
    /\ ~Raised(jv)
    /\ SubSeq(jv.errors, 1, Len(pre.errors)) = pre.errors
    /\ NoErrorRecorded <=> (AcceptsAlone(Target) /\ AcceptsAlone(Controller))
    /\ (AcceptsAlone(Target) /\ ~AcceptsAlone(Controller)) =>
         (Len(NewErrorsOfCall) = 1 /\ IsWithinError(NewErrorsOfCall[1]))
    /\ ~AcceptsAlone(Target) =>
         /\ Len(NewErrorsOfCall) = Len(ErrorsAlone(Target)) + Len(ErrorsAlone(Controller))
         /\ \A n \in 1..Len(NewErrorsOfCall) : ~IsWithinError(NewErrorsOfCall[n])

(* 0 <= i < 256^u for an i of at most 32 bits (256^4 exceeds every such i). *)
FitsInBytes(i, u) == i >= 0 /\ (u >= 4 \/ i < Pow256(u))
UintSizeCase ==
  /\ ControlCase(".size") /\ Target = Typename("uint") /\ Controller.t2 = "UintValue"
  /\ pre.cbor.k = "Integer"

(* C17: `uint .size u` accepts the integer i iff 0 <= i < 256^u, for every *)
(* u, and computing the bound never overflows.                             *)
C17_UintSize ==
  UintSizeCase =>
    /\ ~Raised(jv)
    /\ NoErrorRecorded <=> FitsInBytes(pre.cbor.v, Controller.value)

(***************************************************************************)
(* Ranges on a value that is not an array (cbor.rs 495-697).               *)
(***************************************************************************)
RangeCase ==
  /\ op.f = "visit_type" /\ Len(op.a) = 1 /\ IsSome(op.a[1].operator)
  /\ Unwrap(op.a[1].operator).op = "RangeOp"
  /\ ~Raised(pre) /\ pre.cbor.k # "Array"
Between(v, l, u, is_inclusive) == IF is_inclusive THEN l <= v /\ v <= u ELSE l < v /\ v < u
IntegerLiterals == {"IntValue", "UintValue"}
RangeAccepts(lower, upper, is_inclusive) ==
  \/ /\ lower.t2 \in IntegerLiterals /\ upper.t2 \in IntegerLiterals
     /\ pre.cbor.k = "Integer" /\ Between(pre.cbor.v, lower.value, upper.value, is_inclusive)
  \/ /\ lower.t2 = "FloatValue" /\ upper.t2 = "FloatValue"
     /\ pre.cbor.k = "Float" /\ Between(pre.cbor.v, lower.value, upper.value, is_inclusive)
OneErrorRecorded ==
  /\ ~Raised(jv) /\ Len(jv.errors) = Len(pre.errors) + 1
  /\ SubSeq(jv.errors, 1, Len(pre.errors)) = pre.errors
(* `tstr .size (l..u)` with uint bounds on a text value. *)
SizeRangeCase ==
  /\ ControlCase(".size") /\ Target = Typename("tstr")
  /\ Controller.t2 = "ParenthesizedType" /\ Len(Controller.pt) = 1
  /\ IsSome(Controller.pt[1].operator) /\ Unwrap(Controller.pt[1].operator).op = "RangeOp"
  /\ Controller.pt[1].type2.t2 = "UintValue"
  /\ Unwrap(Controller.pt[1].operator).type2.t2 = "UintValue"
  /\ pre.cbor.k = "Text"
SizeRangeAccepts ==
  Between(Len(pre.cbor.v), Controller.pt[1].type2.value,
          Unwrap(Controller.pt[1].operator).type2.value,
          Unwrap(Controller.pt[1].operator).is_inclusive)

(* C19: on a value that is not an array, l..u accepts an integer v iff     *)
(* l <= v <= u and l...u iff l < v < u, a float likewise against float     *)
(* bounds; a text is checked, by its length, only under .size; every       *)
(* other value, a text outside .size, and every range whose bounds are not *)
(* both integers or both floats records exactly one error.                 *)
C19_Range ==
  /\ RangeCase =>
       IF RangeAccepts(op.a[1].type2, Unwrap(op.a[1].operator).type2,
                       Unwrap(op.a[1].operator).is_inclusive)
       THEN NoErrorRecorded ELSE OneErrorRecorded
  /\ SizeRangeCase => IF SizeRangeAccepts THEN NoErrorRecorded ELSE OneErrorRecorded
C19_Witness ==
  /\ RangeCase /\ NoErrorRecorded
  /\ ~Unwrap(op.a[1].operator).is_inclusive
  /\ pre.cbor = Integer(2) /\ op.a[1].type2 = UintValue(1)

(***************************************************************************)
(* validate_json (validator.rs) on literal types, array groups and map     *)
(* groups.                                                                 *)
(***************************************************************************)
Literals(ls) == Root([i \in 1..Len(ls) |-> T1(ls[i])])

JsonPrograms ==
  << (* r = "x" *)
     Literals(<<TextValue("x")>>),
     (* r = -1 *)
     Literals(<<IntValue(-1)>>),
     (* r = 1.5 *)
     Literals(<<FloatValue(15)>>),
     (* r = 3 *)
     Literals(<<UintValue(3)>>),
     (* r = 3 / 1.5 / 10 *)
     Literals(<<UintValue(3), FloatValue(15), UintValue(10)>>),
     (* r = -1 / "x" *)
     Literals(<<IntValue(-1), TextValue("x")>>),
     (* r = [city: tstr, n: uint] *)
     Root(<<T1(ArrayT(<<<<Entry("city", Ty("tstr")), Entry("n", Ty("uint"))>>>>))>>),
     (* r = [city: tstr, gps: Gps]   Gps = { a: uint } *)
     <<TypeRule("r", None, <<T1(ArrayT(<<<<Entry("city", Ty("tstr")), Entry("gps", Ty("Gps"))>>>>))>>),
       TypeRule("Gps", None, <<T1(MapT(<<<<Entry("a", Ty("uint"))>>>>))>>)>>,
     (* r = { a: uint } *)
     MapRoot(<<Entry("a", Ty("uint"))>>),
     (* r = { ? a: uint } *)
     MapRoot(<<OccEntry(Optional, "a", Ty("uint"))>>),
     (* r = { * a: uint } *)
     MapRoot(<<OccEntry(ZeroOrMore, "a", Ty("uint"))>>),
     (* r = { + a: uint } *)
     MapRoot(<<OccEntry(OneOrMore, "a", Ty("uint"))>>),
     (* r = { ? a: int } *)
     MapRoot(<<OccEntry(Optional, "a", Ty("int"))>>),
     (* r = { ? a: T }   T = { b: tstr } *)
     <<TypeRule("r", None, <<T1(MapT(<<<<OccEntry(Optional, "a", Ty("T"))>>>>))>>),
       TypeRule("T", None, <<T1(MapT(<<<<Entry("b", Ty("tstr"))>>>>))>>)>>,
     (* r = { + (a: uint) } *)
     MapRoot(<<InlineGroup(Some(OneOrMore), <<<<Entry("a", Ty("uint"))>>>>)>>),
     (* r = a *)
     Root(Ty("a")) >>

JsonValues ==
  << Null, Bool(TRUE), Integer(-1), Integer(1), Integer(3), Integer(10), Float(15), Float(30),
     Text("x"), Text("y"), Text("3"),
     Array(<<>>), Array(<<Text("x")>>), Array(<<Text("x"), Integer(1)>>),
     Array(<<Integer(1), Text("x")>>), Array(<<Text("x"), Integer(1), Integer(1)>>),
     Array(<<Text("x"), Map(<<KV(Text("a"), Integer(1))>>)>>),
     Array(<<Map(<<KV(Text("a"), Integer(1))>>), Text("x")>>),
     Map(<<>>), Map(<<KV(Text("a"), Integer(1))>>), Map(<<KV(Text("b"), Text("x"))>>),
     Map(<<KV(Text("a"), Integer(1)), KV(Text("b"), Text("x"))>>) >>

InitJson ==
  /\ \E p \in 1..Len(JsonPrograms), v \in 1..Len(JsonValues) :
       jv = New(JsonPrograms[p], JsonValues[v]) /\ overflow_checks \in Builds(JsonPrograms[p])
  /\ pre = jv
  /\ op = [f |-> "new", a |-> <<>>]
  /\ result = None
  /\ json_result = None
  /\ steps = 0

SpecJson == InitJson /\ [][Next]_vars

JsonValidated == IsSome(json_result) /\ ~Aborted(Unwrap(json_result))
JsonAccepted == Unwrap(json_result).ok
IsLiteralProgram(cddl) ==
  /\ Len(cddl) = 1 /\ cddl[1].r = "Type"
  /\ \A i \in 1..Len(cddl[1].value) :
       /\ IsNone(cddl[1].value[i].operator)
       /\ cddl[1].value[i].type2.t2 \in {"IntValue", "UintValue", "FloatValue", "TextValue"}
(* Equality of a JSON value and a literal: numbers numerically (in tenths), *)
(* strings exactly, never across the two.                                   *)
EqualsLiteral(json, lit) ==
  IF lit.t2 = "TextValue" THEN json.k = "Text" /\ json.v = lit.value
  ELSE /\ IsNumber(json)
       /\ (IF json.k = "Integer" THEN 10 * json.v ELSE json.v)
            = (IF lit.t2 = "FloatValue" THEN lit.value ELSE 10 * lit.value)

(* C21: validate_json against a type choice of literals accepts a value    *)
(* iff it equals one of the literals: numbers numerically, strings         *)
(* exactly, a text literal no number and a numeric literal no string.      *)
C21_JsonLiterals ==
  (JsonValidated /\ IsLiteralProgram(jv.cddl)) =>
    (JsonAccepted <=>
       \E i \in 1..Len(jv.cddl[1].value) : EqualsLiteral(jv.cbor, jv.cddl[1].value[i].type2))

(* The root is one array type of one group choice whose entries are        *)
(* `key: type` without occurrence indicator.                               *)
IsPlainArrayProgram(cddl) ==
  /\ Len(cddl) >= 1 /\ cddl[1].r = "Type" /\ Len(cddl[1].value) = 1
  /\ IsNone(cddl[1].value[1].operator) /\ cddl[1].value[1].type2.t2 = "Array"
  /\ Len(cddl[1].value[1].type2.group) = 1
  /\ \A i \in 1..Len(cddl[1].value[1].type2.group[1]) :
       /\ cddl[1].value[1].type2.group[1][i].ge = "ValueMemberKey"
       /\ IsNone(cddl[1].value[1].type2.group[1][i].occur)
ArrayEntries(cddl) == cddl[1].value[1].type2.group[1]
(* validate_json's verdict on one value against one type of the program. *)
JsonAccepts(cddl, t, json) == validate_type([rules |-> cddl, depth |-> 0], t, None, None, None, json).ok

(* C22: against an array schema whose entries carry no occurrence          *)
(* indicator, validate_json accepts an array iff it has one element per    *)
(* entry and the element at position i satisfies the type of entry i.      *)
C22_JsonArrayPositional ==
  (JsonValidated /\ IsPlainArrayProgram(jv.cddl) /\ jv.cbor.k = "Array") =>
    (JsonAccepted <=>
       /\ Len(jv.cbor.v) = Len(ArrayEntries(jv.cddl))
       /\ \A i \in 1..Len(ArrayEntries(jv.cddl)) :
            JsonAccepts(jv.cddl, ArrayEntries(jv.cddl)[i].entry_type, jv.cbor.v[i]))

(* The root is one map type of one group choice of one `key: type` entry   *)
(* with a bareword key.                                                    *)
IsBarewordEntryProgram(cddl) ==
  /\ Len(cddl) >= 1 /\ cddl[1].r = "Type" /\ Len(cddl[1].value) = 1
  /\ IsNone(cddl[1].value[1].operator) /\ cddl[1].value[1].type2.t2 = "Map"
  /\ Len(cddl[1].value[1].type2.group) = 1 /\ Len(cddl[1].value[1].type2.group[1]) = 1
  /\ cddl[1].value[1].type2.group[1][1].ge = "ValueMemberKey"
  /\ IsSome(cddl[1].value[1].type2.group[1][1].member_key)
  /\ Unwrap(cddl[1].value[1].type2.group[1][1].member_key).mk = "Bareword"
BarewordEntry(cddl) == cddl[1].value[1].type2.group[1][1]
KeyAbsent(cddl, json) ==
  json.k = "Map" /\ IsNone(MapGet(json.v, Text(Unwrap(BarewordEntry(cddl).member_key).ident)))

(* C23: validate_json of an object that lacks the bareword key of a map    *)
(* entry passes iff the entry's own occurrence indicator is ? or *,        *)
(* whatever the entry type is.                                             *)
C23_JsonMissingKey ==
  (JsonValidated /\ IsBarewordEntryProgram(jv.cddl) /\ KeyAbsent(jv.cddl, jv.cbor)) =>
    (JsonAccepted <=> Skippable(BarewordEntry(jv.cddl)))

(***************************************************************************)
(* validate_json_from_str (validator.rs 148-155).  An input text is what   *)
(* its parser makes of it: a parse error, or the tree it parses to.        *)
(***************************************************************************)
Malformed == [parses |-> FALSE, tree |-> <<>>]
WellFormed(tree) == [parses |-> TRUE, tree |-> tree]
(* parser::cddl_from_str and serde_json::from_str *)
cddl_from_str(input) == IF input.parses THEN Some(input.tree) ELSE None
from_str(input) == IF input.parses THEN Some(input.tree) ELSE None
ErrCompilation(which) == [kind |-> "Compilation", msg |-> which, errors |-> <<>>]

validate_json_from_str_json_first(cddl_input, json_input) ==
  IF IsNone(from_str(json_input)) THEN JErr(ErrCompilation("JSON"))
  ELSE IF IsNone(cddl_from_str(cddl_input)) THEN JErr(ErrCompilation("CDDL"))
  ELSE validate_json(Unwrap(cddl_from_str(cddl_input)), Unwrap(from_str(json_input)))
validate_json_from_str(cddl_input, json_input) ==
  IF IsNone(cddl_from_str(cddl_input)) THEN JErr(ErrCompilation("CDDL"))
  ELSE IF IsNone(from_str(json_input)) THEN JErr(ErrCompilation("JSON"))
  ELSE validate_json(Unwrap(cddl_from_str(cddl_input)), Unwrap(from_str(json_input)))

CddlTexts == {Malformed} \cup {WellFormed(JsonPrograms[p]) : p \in 1..Len(JsonPrograms)}
JsonTexts ==
  {Malformed} \cup {WellFormed(JsonValues[v]) : v \in {i \in 1..Len(JsonValues) : IsJson(JsonValues[i])}}

InitFromStr ==
  /\ jv = New(<<>>, Null)
  /\ pre = jv
  /\ op = [f |-> "new", a |-> <<>>]
  /\ result = None
  /\ json_result = None
  /\ steps = 0
  /\ overflow_checks \in Builds(<<>>)

CallValidateJsonFromStr ==
  /\ steps < MaxOps
  /\ \E cddl_input \in CddlTexts, json_input \in JsonTexts :
       /\ json_result' = Some(validate_json_from_str(cddl_input, json_input))
       /\ op' = [f |-> "validate_json_from_str", a |-> <<cddl_input, json_input>>]
  /\ steps' = steps + 1
  /\ UNCHANGED <<jv, pre, result, overflow_checks>>

NextFromStr == CallValidateJsonFromStr
SpecFromStr == InitFromStr /\ [][NextFromStr]_vars

FromStrCalled == op.f = "validate_json_from_str"
IsCompilationError(r, which) == r = JErr(ErrCompilation(which))

(* C24: validate_json_from_str reports Compilation(CDDL) when the CDDL     *)
(* text does not parse, whatever the JSON text; Compilation(JSON) when the *)
(* CDDL parses and the JSON text does not; and runs the validator, whose   *)
(* result is never a compilation error, only when both parse.              *)
C24_CompilationErrors ==
  FromStrCalled =>
    LET cddl_input == op.a[1]
        json_input == op.a[2]
        r == Unwrap(json_result)
    IN /\ ~cddl_input.parses => IsCompilationError(r, "CDDL")
       /\ (cddl_input.parses /\ ~json_input.parses) => IsCompilationError(r, "JSON")
       /\ (cddl_input.parses /\ json_input.parses) =>
            /\ r = validate_json(cddl_input.tree, json_input.tree)
            /\ r.e.kind # "Compilation"
C24_Witness ==
  /\ FromStrCalled /\ ~op.a[1].parses /\ ~op.a[2].parses
  /\ IsCompilationError(Unwrap(json_result), "CDDL")

ArrRoot(gc) == Root(<<T1(ArrayT(<<gc>>))>>)
Item(name) == TypeGroupname(None, name)
OccItem(occur, name) == TypeGroupname(Some(occur), name)
CtlItems(ctrl, controller) ==
  ArrRoot(<<ValueMemberKey(Some(ZeroOrMore), None, <<CtlOp(Typename("uint"), ctrl, controller)>>)>>)

ArrPrograms ==
  << (* r = [* int, tstr] *)
     ArrRoot(<<OccItem(ZeroOrMore, "int"), Item("tstr")>>),
     (* r = [* any, tstr] *)
     ArrRoot(<<OccItem(ZeroOrMore, "any"), Item("tstr")>>),
     (* r = [? int, tstr] *)
     ArrRoot(<<OccItem(Optional, "int"), Item("tstr")>>),
     (* r = [+ tstr, int] *)
     ArrRoot(<<OccItem(OneOrMore, "tstr"), Item("int")>>),
     (* r = [int, tstr] *)
     ArrRoot(<<Item("int"), Item("tstr")>>),
     (* r = [* int, uint] *)
     ArrRoot(<<OccItem(ZeroOrMore, "int"), Item("uint")>>),
     (* r = [* int] *)
     ArrRoot(<<OccItem(ZeroOrMore, "int")>>),
     (* r = [* uint .lt 5] *)
     CtlItems(".lt", UintValue(5)),
     (* r = [* uint .le 1] *)
     CtlItems(".le", UintValue(1)),
     (* r = [* uint .gt 1] *)
     CtlItems(".gt", UintValue(1)),
     (* r = [* uint .ge 2] *)
     CtlItems(".ge", UintValue(2)),
     (* r = [* uint .ne 1] *)
     CtlItems(".ne", UintValue(1)),
     (* r = [* tstr .size 1] *)
     ArrRoot(<<ValueMemberKey(Some(ZeroOrMore), None,
                              <<CtlOp(Typename("tstr"), ".size", UintValue(1))>>)>>),
     (* r = [* tstr .regexp "b"] *)
     ArrRoot(<<ValueMemberKey(Some(ZeroOrMore), None,
                              <<CtlOp(Typename("tstr"), ".regexp", TextValue("b"))>>)>>),
     (* r = [uint .lt 5] *)
     ArrRoot(<<ValueMemberKey(None, None, <<CtlOp(Typename("uint"), ".lt", UintValue(5))>>)>>) >>

ArrValues ==
  << Integer(1), Text("x"), Array(<<>>), Array(<<Integer(1)>>), Array(<<Integer(5)>>),
     Array(<<Text("x")>>), Array(<<Text("ab")>>),
     Array(<<Integer(1), Text("x")>>), Array(<<Text("x"), Integer(1)>>),
     Array(<<Integer(1), Integer(2)>>), Array(<<Integer(1), Integer(7)>>), Array(<<Integer(-1), Integer(1)>>),
     Array(<<Integer(5), Integer(5)>>), Array(<<Integer(1), Integer(1)>>),
     Array(<<Text("x"), Text("y")>>), Array(<<Text("b"), Text("ab")>>) >>

InitArr ==
  /\ \E p \in 1..Len(ArrPrograms), v \in 1..Len(ArrValues) :
       jv = New(ArrPrograms[p], ArrValues[v]) /\ overflow_checks \in Builds(ArrPrograms[p])
  /\ pre = jv
  /\ op = [f |-> "new", a |-> <<>>]
  /\ result = None
  /\ json_result = None
  /\ steps = 0

SpecArr == InitArr /\ [][Next]_vars

SingleChoiceOnArray ==
  /\ op.f = "visit_group" /\ Len(op.a) = 1
  /\ pre.cbor.k = "Array" /\ ~Raised(pre) /\ ~Raised(jv)
(* The entries that follow an entry with an occurrence indicator and have  *)
(* none of their own.                                                      *)
AfterOccurrence ==
  {i \in 2..Len(op.a[1]) :
     IsSome(op.a[1][i - 1].occur) /\ IsNone(op.a[1][i].occur) /\ ~Raised(EntryCall(i))}
WithoutOccurrence(i) == visit_group_entry([EntryCall(i) EXCEPT !.occurence = None], op.a[1][i])

(* C26: the occurrence indicator of a group entry is None when the next    *)
(* entry of the same group choice is visited, and that entry is matched as *)
(* an entry without occurrence is: positionally.                           *)
C26_OccurrenceConsumed ==
  SingleChoiceOnArray =>
    \A i \in AfterOccurrence :
      /\ IsNone(EntryCall(i).occurence)
      /\ AfterEntry(i).errors = WithoutOccurrence(i).errors

(***************************************************************************)
(* The error list across a visit.                                          *)
(***************************************************************************)
IsPrefix(a, b) == Len(a) <= Len(b) /\ SubSeq(b, 1, Len(a)) = a
VisitCalled == op.f \in {"validate", "visit_type", "visit_group", "visit_identifier"}
IsControlType(t) == Len(t) = 1 /\ IsSome(t[1].operator) /\ Unwrap(t[1].operator).op = "CtlOp"
RolledBack == \E i \in 1..Len(op.a) : Len(visit_type1(TypeScope, op.a[i]).errors) > Len(jv.errors)

(* C27: the errors in the list when a visit begins (visit_type,            *)
(* visit_group, each visit_group_choice, the visit_type_rule of validate,  *)
(* the rule visits of visit_identifier, visit_control_operator) are still  *)
(* in the list, unchanged and in order, when it returns.                   *)
C27_ErrorPrefixPreserved ==
  /\ VisitCalled => IsPrefix(pre.errors, jv.errors)
  /\ (op.f = "visit_group" /\ ~Raised(pre)) =>
       \A i \in 1..Len(op.a) :
         IsPrefix(pre.errors, visit_group_choice(GroupScope, op.a[i]).errors)
  /\ (op.f = "visit_type" /\ IsControlType(op.a) /\ ~Raised(pre)) =>
       IsPrefix(pre.errors,
                visit_control_operator(pre, Target, Unwrap(op.a[1].operator).ctrl, Controller).errors)
C27_Witness ==
  /\ op.f = "visit_type" /\ Len(pre.errors) > 0 /\ ~Raised(pre) /\ ~Raised(jv)
  /\ Len(op.a) > 1 /\ RolledBack
  /\ jv.errors = pre.errors

(***************************************************************************)
(* Identifiers that resolve to nothing.                                    *)
(***************************************************************************)
IsUnresolved(cddl, ident) == lookup_ident(ident) = "IDENT" /\ IsNone(rule_from_ident(cddl, ident))
IsUnresolvedProgram(cddl) ==
  /\ Len(cddl) = 1 /\ cddl[1].r = "Type" /\ IsNone(cddl[1].generic_params)
  /\ Len(cddl[1].value) = 1 /\ IsNone(cddl[1].value[1].operator)
  /\ cddl[1].value[1].type2.t2 = "Typename"
  /\ IsUnresolved(cddl, cddl[1].value[1].type2.ident)

(* C28: a program whose root type names an identifier that is neither a    *)
(* prelude name nor a rule is rejected for every value, by validate and by *)
(* validate_json, including a map that has the identifier's name as a key. *)
C28_UnresolvedFails ==
  /\ (FreshValidate /\ IsUnresolvedProgram(pre.cddl)) => ~Accepted
  /\ (JsonValidated /\ IsUnresolvedProgram(jv.cddl)) => ~JsonAccepted

(***************************************************************************)
(* Control operators on the items of an array.                             *)
(***************************************************************************)
ItemControls == {".lt", ".le", ".gt", ".ge", ".ne", ".size", ".regexp"}
IsControlledItemsProgram(cddl) ==
  /\ Len(cddl) = 1 /\ Len(cddl[1].value) = 1 /\ IsNone(cddl[1].value[1].operator)
  /\ cddl[1].value[1].type2.t2 = "Array"
  /\ Len(cddl[1].value[1].type2.group) = 1 /\ Len(cddl[1].value[1].type2.group[1]) = 1
  /\ LET ge == cddl[1].value[1].type2.group[1][1] IN
       /\ ge.ge = "ValueMemberKey" /\ IsNone(ge.member_key) /\ IsOccur(ge.occur, "ZeroOrMore")
       /\ IsControlType(ge.entry_type)
       /\ Unwrap(ge.entry_type[1].operator).ctrl \in ItemControls
ItemType(cddl) == cddl[1].value[1].type2.group[1][1].entry_type
ItemAccepted(cddl, item) == ValidateFresh(Root(ItemType(cddl)), item) = ResultOk

(* C29: [* target ctrl controller] with ctrl one of .lt .le .gt .ge .ne    *)
(* .size .regexp accepts an array iff every element, validated on its own  *)
(* against `target ctrl controller`, is accepted: the elements are compared *)
(* under the control operator, so [* uint .lt 5] accepts [1, 2].           *)
C29_ControlAcrossArray ==
  (FreshValidate /\ IsControlledItemsProgram(pre.cddl) /\ pre.cbor.k = "Array") =>
    (Accepted <=> \A i \in 1..Len(pre.cbor.v) : ItemAccepted(pre.cddl, pre.cbor.v[i]))

(***************************************************************************)
(* .eq and .ne on a value their target does not let them check.            *)
(***************************************************************************)
EqualityCase ==
  /\ op.f = "visit_type" /\ IsControlType(op.a)
  /\ Unwrap(op.a[1].operator).ctrl \in {".eq", ".ne"}
  /\ ~Raised(pre) /\ ~Raised(jv)
(* The target is an array or a map and the value is not, or the target is  *)
(* a typename that is neither a string nor a numeric type.                 *)
ControllerNotVisited ==
  \/ Target.t2 = "Array" /\ pre.cbor.k # "Array"
  \/ Target.t2 = "Map" /\ pre.cbor.k # "Map"
  \/ /\ Target.t2 = "Typename"
     /\ ~is_ident_string_data_type(pre.cddl, Target.ident)
     /\ ~is_ident_numeric_data_type(pre.cddl, Target.ident)

(* C30: an evaluation of .eq or .ne that does not visit the controller     *)
(* against the current value records an error.                             *)
C30_EqualityChecked ==
  (EqualityCase /\ ControllerNotVisited) => Len(jv.errors) > Len(pre.errors)

====
